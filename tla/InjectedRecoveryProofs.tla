------------------------- MODULE InjectedRecoveryProofs -------------------------
(* The safety of InjectedRecovery for any number of tabs, invocations,        *)
(* accounts, networks and transactions.  An outcome is claimed by what the    *)
(* dapp was told, by a row that an operation has read, and by a reply that    *)
(* was saved: claims outlive the row they came from, which may be pruned, and *)
(* agree because none is made that a row did not hold.                        *)
EXTENDS InjectedRecovery, TLAPS

Evident(row) == row.final # None \/ row.hash # None \/ row.notSubmitted

Holds(row, outcome) ==
    \/ row.final = outcome
    \/ row.notSubmitted /\ outcome = NotSubmitted

Read(tab, i) == recovery[tab] # None /\ recovery[tab].invocation = i

Claimed(i, outcome) ==
    \/ <<i, outcome>> \in told /\ outcome # NotInvoked
    \/ \E tab \in Tab : Read(tab, i) /\ Holds(recovery[tab].copy, outcome)
    \/ \E tab \in Tab : /\ InCall(tab, "saved")
                        /\ calls[tab].invocation = i /\ calls[tab].reply = outcome

------------------------------------------------------------------------------
(* The parts of the inductive invariant                                    *)

IdsAreKnown ==
    /\ \A i \in Invocation : rows[i] # None => i \in prepared
    /\ \A tab \in Tab : calls[tab] # None => calls[tab].invocation \in prepared
    /\ \A tab \in Tab : recovery[tab] # None => recovery[tab].invocation \in prepared
    /\ \A t \in told : t[1] \in prepared
    /\ acked \subseteq invoked /\ invoked \subseteq prepared

OneCallEach ==
    \A tab, other \in Tab :
      /\ calls[tab] # None /\ calls[other] # None
      /\ calls[tab].invocation = calls[other].invocation
      => tab = other

\* What a call knows of its invocation, which no other tab calls.
CallKnows(call, reached) ==
    /\ call.step = "hook" => ~reached
    /\ call.step \in {"failing", "replied", "confirmed", "saved"} => reached
    /\ call.step \in {"replied", "confirmed", "saved"} => call.reply \in FinalsOf(call.method)
    /\ call.step = "failing" =>
         call.method = "submit" /\ \E tx \in Tx : call.reply = Approved(tx)

CallKnowsRow(call, row) ==
    /\ row.method = call.method
    /\ row.state # "not-invoked"
    /\ call.step = "hook" => row.state = "prepared"

CallsKnow ==
    \A tab \in Tab : calls[tab] # None =>
      LET call == calls[tab]
          i == call.invocation
      IN  /\ CallKnows(call, i \in invoked)
          /\ rows[i] # None => CallKnowsRow(call, rows[i])
          /\ <<i, NotInvoked>> \notin told

\* Only what reached the wallet has evidence, and is never recorded or told to
\* have not been invoked.
InvokedInv ==
    /\ \A i \in Invocation : rows[i] # None =>
         /\ Evident(rows[i]) => i \in invoked
         /\ rows[i].state = "not-invoked" => i \notin invoked
    /\ \A t \in told :
         /\ t[2] # NotInvoked => t[1] \in invoked
         /\ t[2] = NotInvoked => /\ t[1] \notin invoked
                                 /\ rows[t[1]] # None => rows[t[1]].state # "unknown"

RowsAgree == \A i \in Invocation : rows[i] # None => RowAgrees(rows[i])

ClaimsAreHeld ==
    \A i \in Invocation, outcome \in Outcome :
      Claimed(i, outcome) /\ rows[i] # None => Holds(rows[i], outcome)

ClaimsAgree ==
    \A i \in Invocation : \A o, p \in Outcome :
      Claimed(i, o) /\ Claimed(i, p) => o = p

\* A row keeps what it was when an operation read it, and an acknowledgement
\* that has asked the wallet, or needs not, has found evidence.
RecoveryKnows(operation, row, acknowledged) ==
    /\ operation.copy.method = row.method
    /\ operation.copy.required = row.required
    /\ operation.hash # None => row.method = "submit"
    /\ operation.step = "reconciling" => operation.hash # None
    /\ operation.step \in {"acknowledging", "reconciling", "accepting"} => Evident(row)
    /\ operation.step \in {"reconciling", "accepting"} /\ Owed(row) => acknowledged

RecoveriesKnow ==
    \A tab \in Tab : recovery[tab] # None =>
      LET i == recovery[tab].invocation IN
      rows[i] # None => RecoveryKnows(recovery[tab], rows[i], i \in acked)

\* A call whose client listened when it saw the account, and that has been told
\* of no change since, saw that of the wallet: its client listens still, unless
\* it was disposed of.
Hears(tab, call) ==
    call.heard /\ call.fresh /\ call.seen # None /\ ~client[tab].disposed =>
      client[tab].listening = Listened /\ live.account = call.seen

HeardIsTrue ==
    \A tab \in Tab :
      /\ client[tab].disposed => client[tab].listening # Listened
      /\ calls[tab] # None => Hears(tab, calls[tab])

CallInv == IdsAreKnown /\ OneCallEach /\ CallsKnow /\ InvokedInv

ClaimInv == RowsAgree /\ ClaimsAreHeld /\ ClaimsAgree

DebtInv == RecoveriesKnow /\ AcknowledgedInOrder

Inv == TypeOK /\ CallInv /\ ClaimInv /\ DebtInv /\ HeardIsTrue

------------------------------------------------------------------------------
(* What the store does to a row                                            *)

\* What is on record of an invocation stays, and a proof that nothing was
\* submitted is not added to other evidence.
Grows(row, next) ==
    /\ next.method = row.method /\ next.required = row.required
    /\ row.final # None => next.final = row.final
    /\ row.hash # None => next.hash = row.hash
    /\ row.notSubmitted => next.notSubmitted
    /\ next.notSubmitted => \/ row.notSubmitted
                            \/ row.final = None /\ row.hash = None /\ row.delivery = "active"

IsNew(row) ==
    row.state = "prepared" /\ row.delivery = "active" /\ ~Evident(row)

RowsGrow ==
    /\ rows' \in [Invocation -> Row \cup {None}]
    /\ \A i \in Invocation : rows'[i] # None =>
         /\ rows'[i].final \in FinalsOf(rows'[i].method) \cup {None}
         /\ RowAgrees(rows'[i])
         /\ \/ rows[i] # None /\ Grows(rows[i], rows'[i])
            \/ rows[i] = None /\ i \notin prepared /\ IsNew(rows'[i])

StatesKept ==
    \A i \in Invocation :
      rows'[i] # None => rows[i] # None /\ rows'[i].state = rows[i].state

DeliveriesKept ==
    \A i \in Invocation :
      rows[i] # None /\ rows'[i] # None => rows'[i].delivery = rows[i].delivery

NoneIsNone ==
    /\ None \notin Row /\ None \notin Call /\ None \notin Recovery
    /\ None \notin Outcome /\ None \notin Final
    /\ None \notin Account /\ None \notin Invocation /\ None \notin Tx

LEMMA Absent == NoneIsNone
BY InjectedAssumption, AbsentAssumption DEF NoneIsNone, Outcome

LEMMA FinalForms ==
    ASSUME NEW method \in Method, NEW final \in FinalsOf(method)
    PROVE  /\ final \in Final /\ final \in Outcome /\ final # None
           /\ final # NotSubmitted /\ final # NotInvoked
           /\ final.status \in {"rejected", "approved"}
<1>1. final \in Final /\ final # None
  BY Absent DEF Final, Method, NoneIsNone
<1>2. final.status \in {"rejected", "approved"}
  BY DEF FinalsOf, Rejected, Approved
<1>3. NotSubmitted.status = "not-submitted" /\ NotInvoked.status = "not-invoked"
  BY DEF NotSubmitted, NotInvoked
<1> QED
  BY <1>1, <1>2, <1>3 DEF Outcome

LEMMA GrowsReflexive == \A row \in Row : Grows(row, row)
BY DEF Grows

\* One row is replaced by one that grew from it.
LEMMA OneRowGrows ==
    ASSUME Inv, NEW i \in Invocation, rows[i] # None, NEW next \in Row,
           rows' = [rows EXCEPT ![i] = next], Grows(rows[i], next), RowAgrees(next),
           next.final \in FinalsOf(next.method) \cup {None}
    PROVE  /\ RowsGrow
           /\ rows'[i] = next /\ rows'[i] # None
           /\ next.state = rows[i].state => StatesKept
           /\ next.delivery = rows[i].delivery => DeliveriesKept
<1>1. rows'[i] = next /\ next # None
  BY Absent DEF Inv, TypeOK, NoneIsNone
<1>2. \A j \in Invocation \ {i} : rows'[j] = rows[j]
  BY DEF Inv, TypeOK
<1>3. ASSUME NEW j \in Invocation, rows'[j] # None
      PROVE  /\ rows'[j].final \in FinalsOf(rows'[j].method) \cup {None}
             /\ RowAgrees(rows'[j])
             /\ rows[j] # None /\ Grows(rows[j], rows'[j])
  <2>1. CASE j = i
    BY <1>1, <2>1
  <2>2. CASE j # i
    BY <1>2, <1>3, <2>2, GrowsReflexive DEF Inv, TypeOK, ClaimInv, RowsAgree
  <2> QED
    BY <2>1, <2>2
<1>4. rows' \in [Invocation -> Row \cup {None}]
  BY DEF Inv, TypeOK
<1>5. RowsGrow
  BY <1>3, <1>4 DEF RowsGrow
<1> QED
  BY <1>1, <1>2, <1>5 DEF StatesKept, DeliveriesKept

LEMMA SameRows ==
    ASSUME Inv, UNCHANGED rows
    PROVE  RowsGrow /\ StatesKept /\ DeliveriesKept
BY GrowsReflexive
   DEF Inv, TypeOK, ClaimInv, RowsAgree, RowsGrow, StatesKept, DeliveriesKept

LEMMA FewerRows ==
    ASSUME Inv, NEW i \in Invocation, rows' = [rows EXCEPT ![i] = None]
    PROVE  RowsGrow /\ StatesKept /\ DeliveriesKept
BY GrowsReflexive
   DEF Inv, TypeOK, ClaimInv, RowsAgree, RowsGrow, StatesKept, DeliveriesKept

LEMMA SaveFinalGrows ==
    ASSUME Inv, NEW i \in Invocation, NEW final, SaveFinal(i, final),
           rows[i] # None => final \in FinalsOf(rows[i].method)
    PROVE  /\ RowsGrow /\ StatesKept /\ DeliveriesKept
           /\ rows[i] # None /\ rows'[i] # None
           /\ rows'[i].final = final /\ rows'[i].hash = rows[i].hash
<1> DEFINE next == [rows[i] EXCEPT !.final = final]
<1>1. /\ rows[i] # None /\ rows[i] \in Row /\ rows[i].final \in {None, final}
      /\ ~rows[i].notSubmitted
      /\ rows[i].hash # None => final = Approved(rows[i].hash)
      /\ rows' = [rows EXCEPT ![i] = next]
  BY DEF SaveFinal, CanSaveFinal, Inv, TypeOK
<1>2. final \in Final /\ final # None
  BY <1>1, FinalForms DEF Row
<1>3. /\ next \in Row /\ next.final = final /\ next.hash = rows[i].hash
      /\ next.method = rows[i].method /\ next.required = rows[i].required
      /\ ~next.notSubmitted
      /\ next.state = rows[i].state /\ next.delivery = rows[i].delivery
  BY <1>1, <1>2 DEF Row
<1> HIDE DEF next
<1>4. Grows(rows[i], next) /\ RowAgrees(next)
  BY <1>1, <1>2, <1>3 DEF Grows, RowAgrees
<1> QED
  BY <1>1, <1>3, <1>4, OneRowGrows

LEMMA SaveProofGrows ==
    ASSUME Inv, NEW i \in Invocation, SaveProof(i)
    PROVE  /\ RowsGrow /\ StatesKept /\ DeliveriesKept
           /\ rows[i] # None /\ rows'[i] # None /\ rows'[i].notSubmitted
<1> DEFINE next == [rows[i] EXCEPT !.notSubmitted = TRUE]
<1>1. /\ rows[i] # None /\ rows[i] \in Row /\ rows[i].final = None
      /\ rows[i].hash = None /\ rows[i].delivery = "active"
      /\ rows' = [rows EXCEPT ![i] = next]
  BY DEF SaveProof, CanSaveProof, Inv, TypeOK
<1>2. /\ next \in Row /\ next.final = None /\ next.hash = None
      /\ next.method = rows[i].method /\ next.required = rows[i].required
      /\ next.notSubmitted
      /\ next.state = rows[i].state /\ next.delivery = rows[i].delivery
  BY <1>1 DEF Row
<1> HIDE DEF next
<1>3. Grows(rows[i], next) /\ RowAgrees(next)
  BY <1>1, <1>2 DEF Grows, RowAgrees
<1> QED
  BY <1>1, <1>2, <1>3, OneRowGrows

LEMMA SaveHashGrows ==
    ASSUME Inv, NEW i \in Invocation, NEW tx \in Tx, SaveHash(i, tx)
    PROVE  /\ RowsGrow /\ StatesKept /\ DeliveriesKept
           /\ rows[i] # None /\ rows'[i] # None
           /\ rows'[i].hash = tx /\ rows'[i].method = "submit" /\ ~rows'[i].notSubmitted
<1> DEFINE next == [rows[i] EXCEPT !.hash = tx]
<1>1. /\ rows[i] # None /\ rows[i] \in Row /\ rows[i].hash \in {None, tx}
      /\ ~rows[i].notSubmitted /\ rows[i].method = "submit"
      /\ rows[i].final \in {None, Approved(tx)}
      /\ rows' = [rows EXCEPT ![i] = next]
  BY DEF SaveHash, CanSaveHash, Inv, TypeOK
<1>2. /\ next \in Row /\ next.final = rows[i].final /\ next.hash = tx
      /\ next.method = rows[i].method /\ next.required = rows[i].required
      /\ ~next.notSubmitted
      /\ next.state = rows[i].state /\ next.delivery = rows[i].delivery
  BY <1>1 DEF Row
<1> HIDE DEF next
<1>3. Grows(rows[i], next) /\ RowAgrees(next)
  BY <1>1, <1>2 DEF Grows, RowAgrees
<1>4. next.final \in FinalsOf(next.method) \cup {None}
  BY <1>1, <1>2 DEF Inv, TypeOK
<1> QED
  BY <1>1, <1>2, <1>3, <1>4, OneRowGrows

LEMMA DeliverGrows ==
    ASSUME Inv, NEW i \in Invocation, NEW delivery \in {"acknowledged", "archived"},
           Deliver(i, delivery)
    PROVE  /\ RowsGrow /\ StatesKept
           /\ rows[i] # None /\ rows' = [rows EXCEPT ![i].delivery = delivery]
           /\ rows'[i] # None /\ rows'[i].delivery = delivery
           /\ delivery = "archived" => ~Evident(rows[i]) \/ rows[i].hash # None
<1> DEFINE next == [rows[i] EXCEPT !.delivery = delivery]
<1>1. /\ rows[i] # None /\ rows[i] \in Row
      /\ rows' = [rows EXCEPT ![i] = next]
      /\ delivery = "archived" => rows[i].final = None /\ ~rows[i].notSubmitted
  BY DEF Deliver, CanDeliver, Inv, TypeOK
<1>2. /\ next \in Row /\ next.final = rows[i].final /\ next.hash = rows[i].hash
      /\ next.method = rows[i].method /\ next.required = rows[i].required
      /\ next.notSubmitted = rows[i].notSubmitted
      /\ next.state = rows[i].state /\ next.delivery = delivery
  BY <1>1 DEF Row
<1> HIDE DEF next
<1>3. RowAgrees(rows[i]) /\ rows[i].final \in FinalsOf(rows[i].method) \cup {None}
  BY <1>1 DEF Inv, TypeOK, ClaimInv, RowsAgree
<1>4. Grows(rows[i], next) /\ RowAgrees(next)
  BY <1>1, <1>2, <1>3 DEF Grows, RowAgrees
<1>5. RowsGrow /\ StatesKept /\ rows'[i] = next /\ rows'[i] # None
  BY <1>1, <1>2, <1>3, <1>4, OneRowGrows
<1> QED
  BY <1>1, <1>2, <1>5 DEF next, Evident

LEMMA TryUpdateGrows ==
    ASSUME Inv, NEW i \in Invocation, NEW state \in {"unknown", "not-invoked"},
           TryUpdate(i, state)
    PROVE  /\ RowsGrow /\ DeliveriesKept
           /\ \A j \in Invocation : rows'[j] # None =>
                /\ rows[j] # None
                /\ rows'[j].state = rows[j].state \/ (j = i /\ rows'[j].state = state)
                /\ rows'[j].final = rows[j].final /\ rows'[j].hash = rows[j].hash
                /\ rows'[j].notSubmitted = rows[j].notSubmitted
<1>1. CASE UNCHANGED rows
  BY <1>1, SameRows
<1>2. CASE /\ rows[i] # None
           /\ rows' = [rows EXCEPT ![i].state = state]
  <2> DEFINE next == [rows[i] EXCEPT !.state = state]
  <2>1. rows[i] \in Row /\ rows' = [rows EXCEPT ![i] = next]
    BY <1>2 DEF Inv, TypeOK
  <2>2. /\ next \in Row /\ next.final = rows[i].final /\ next.hash = rows[i].hash
        /\ next.method = rows[i].method /\ next.required = rows[i].required
        /\ next.notSubmitted = rows[i].notSubmitted
        /\ next.state = state /\ next.delivery = rows[i].delivery
    BY <2>1 DEF Row
  <2> HIDE DEF next
  <2>3. RowAgrees(rows[i]) /\ rows[i].final \in FinalsOf(rows[i].method) \cup {None}
    BY <1>2 DEF Inv, TypeOK, ClaimInv, RowsAgree
  <2>4. Grows(rows[i], next) /\ RowAgrees(next)
    BY <2>1, <2>2, <2>3 DEF Grows, RowAgrees
  <2>5. RowsGrow /\ DeliveriesKept /\ rows'[i] = next
    BY <1>2, <2>1, <2>2, <2>3, <2>4, OneRowGrows
  <2> QED
    BY <1>2, <2>1, <2>2, <2>5 DEF Inv, TypeOK
<1> QED
  BY <1>1, <1>2 DEF TryUpdate

------------------------------------------------------------------------------
(* What keeps the claims                                                   *)

LEMMA HoldsOne ==
    ASSUME NEW row \in Row, RowAgrees(row),
           NEW o \in Outcome, Holds(row, o), NEW p \in Outcome, Holds(row, p)
    PROVE  o = p
BY Absent DEF Holds, RowAgrees, NoneIsNone

LEMMA HoldsGrows ==
    ASSUME NEW row \in Row, NEW next \in Row, Grows(row, next),
           NEW o \in Outcome, Holds(row, o)
    PROVE  Holds(next, o)
BY Absent DEF Holds, Grows, NoneIsNone

LEMMA ClaimsArePrepared ==
    ASSUME Inv, NEW i \in Invocation, NEW outcome \in Outcome, Claimed(i, outcome)
    PROVE  i \in prepared
BY DEF Inv, CallInv, IdsAreKnown, Claimed, Read, InCall

\* The claims agree as long as a new one is of what the row holds.
LEMMA ClaimsKeep ==
    ASSUME Inv, RowsGrow,
           \A i \in Invocation, o \in Outcome : Claimed(i, o)' =>
             Claimed(i, o) \/ (rows[i] # None /\ rows'[i] # None /\ Holds(rows'[i], o))
    PROVE  ClaimInv'
<1>1. RowsAgree'
  BY DEF RowsGrow, RowsAgree
<1>2. ASSUME NEW i \in Invocation, NEW o \in Outcome, Claimed(i, o)', rows'[i] # None
      PROVE  Holds(rows'[i], o)
  <2>1. CASE Claimed(i, o)
    <3>1. rows[i] # None /\ Grows(rows[i], rows'[i])
      BY <1>2, <2>1, ClaimsArePrepared DEF RowsGrow
    <3>2. Holds(rows[i], o)
      BY <2>1, <3>1 DEF Inv, ClaimInv, ClaimsAreHeld
    <3>3. rows[i] \in Row /\ rows'[i] \in Row
      BY <1>2, <3>1 DEF RowsGrow, Inv, TypeOK
    <3> QED
      BY <3>1, <3>2, <3>3, HoldsGrows
  <2> QED
    BY <1>2, <2>1
<1>3. ASSUME NEW i \in Invocation, NEW o \in Outcome, NEW p \in Outcome,
             Claimed(i, o)', Claimed(i, p)'
      PROVE  o = p
  <2>1. CASE Claimed(i, o) /\ Claimed(i, p)
    BY <2>1 DEF Inv, ClaimInv, ClaimsAgree
  <2>2. CASE rows'[i] # None
    <3>1. Holds(rows'[i], o) /\ Holds(rows'[i], p)
      BY <1>2, <1>3, <2>2
    <3>2. rows'[i] \in Row /\ RowAgrees(rows'[i])
      BY <2>2 DEF RowsGrow
    <3> QED
      BY <3>1, <3>2, HoldsOne
  <2> QED
    BY <1>3, <2>1, <2>2
<1>4. ClaimsAreHeld'
  BY <1>2 DEF ClaimsAreHeld
<1>5. ClaimsAgree'
  BY <1>3 DEF ClaimsAgree
<1> QED
  BY <1>1, <1>4, <1>5 DEF ClaimInv

------------------------------------------------------------------------------
(* What keeps the debts to the wallet                                      *)

LEMMA RecoveriesKeep ==
    ASSUME Inv, RowsGrow, acked \subseteq acked',
           \A tab \in Tab :
             \/ recovery'[tab] \in {None, recovery[tab]}
             \/ LET i == recovery'[tab].invocation IN
                rows'[i] # None => RecoveryKnows(recovery'[tab], rows'[i], i \in acked')
    PROVE  RecoveriesKnow'
<1>1. SUFFICES ASSUME NEW tab \in Tab, recovery'[tab] # None,
                      recovery'[tab] = recovery[tab],
                      NEW i, i = recovery[tab].invocation, rows'[i] # None
               PROVE  RecoveryKnows(recovery'[tab], rows'[i], i \in acked')
  BY DEF RecoveriesKnow
<1>2. recovery[tab] \in Recovery /\ i \in Invocation /\ i \in prepared
  BY <1>1 DEF Inv, TypeOK, CallInv, IdsAreKnown, Recovery
<1>3. rows[i] # None /\ Grows(rows[i], rows'[i])
  BY <1>1, <1>2 DEF RowsGrow
<1>4. rows[i] \in Row /\ rows'[i] \in Row
  BY <1>1, <1>2, <1>3 DEF RowsGrow, Inv, TypeOK
<1>5. RecoveryKnows(recovery[tab], rows[i], i \in acked)
  BY <1>1, <1>3 DEF Inv, DebtInv, RecoveriesKnow
<1> QED
  BY <1>1, <1>2, <1>3, <1>4, <1>5 DEF RecoveryKnows, Grows, Evident, Owed

LEMMA DebtsKeep ==
    ASSUME Inv, RowsGrow, DeliveriesKept, acked \subseteq acked',
           \A i \in acked' \ acked : rows'[i] # None => Evident(rows'[i])
    PROVE  AcknowledgedInOrder'
<1>1. SUFFICES ASSUME NEW i \in Invocation, rows'[i] # None
               PROVE  /\ i \in acked' => Evident(rows'[i])
                      /\ /\ rows'[i].delivery = "acknowledged"
                         /\ rows'[i].required \/ rows'[i].notSubmitted
                         => i \in acked'
  BY DEF AcknowledgedInOrder, Evident
<1>2. CASE rows[i] = None
  <2>1. i \notin acked /\ IsNew(rows'[i])
    BY <1>1, <1>2 DEF RowsGrow, Inv, CallInv, IdsAreKnown
  <2> QED
    BY <1>1, <2>1 DEF IsNew
<1>3. CASE rows[i] # None
  <2>1. Grows(rows[i], rows'[i]) /\ rows'[i].delivery = rows[i].delivery
    BY <1>1, <1>3 DEF RowsGrow, DeliveriesKept
  <2>2. /\ i \in acked => Evident(rows[i])
        /\ /\ rows[i].delivery = "acknowledged"
           /\ rows[i].required \/ rows[i].notSubmitted
           => i \in acked
    BY <1>3 DEF Inv, DebtInv, AcknowledgedInOrder, Evident
  <2> QED
    BY <1>1, <2>1, <2>2 DEF Grows, Evident
<1> QED
  BY <1>2, <1>3

\* A step of neither a recovery nor the wallet
LEMMA DebtFrame ==
    ASSUME Inv, RowsGrow, DeliveriesKept, UNCHANGED acked,
           \A tab \in Tab : recovery'[tab] \in {None, recovery[tab]}
    PROVE  DebtInv'
BY RecoveriesKeep, DebtsKeep DEF DebtInv

------------------------------------------------------------------------------
(* The steps of a recovery                                                 *)

\* What every one of them does: no call is touched, and a row or the dapp
\* learns an outcome of what reached the wallet only.
RecoveryMoves ==
    /\ RowsGrow /\ StatesKept
    /\ UNCHANGED <<live, client, callVars>>
    /\ told' \subseteq told \cup (invoked \X (Outcome \ {NotInvoked}))
    /\ \A i \in Invocation : rows'[i] # None /\ Evident(rows'[i]) => i \in invoked
    /\ recovery' \in [Tab -> Recovery \cup {None}]
    /\ \A tab \in Tab : recovery'[tab] # None => recovery'[tab].invocation \in prepared
    /\ acked' \subseteq invoked

LEMMA RecoveryFrame ==
    ASSUME Inv, RecoveryMoves
    PROVE  TypeOK' /\ CallInv' /\ HeardIsTrue'
<1>1. TypeOK'
  <2>1. told' \subseteq Invocation \X Outcome
    BY DEF Inv, TypeOK, RecoveryMoves
  <2> QED
    BY <2>1 DEF Inv, TypeOK, RecoveryMoves, RowsGrow, callVars
<1>2. \A t \in told' : \/ t \in told
                       \/ t[1] \in invoked /\ t[2] \in Outcome /\ t[2] # NotInvoked
  BY DEF RecoveryMoves
<1>3. IdsAreKnown'
  BY <1>2 DEF Inv, TypeOK, CallInv, IdsAreKnown, RecoveryMoves, StatesKept, callVars
<1>4. OneCallEach'
  BY DEF Inv, CallInv, OneCallEach, RecoveryMoves, callVars
<1>5. CallsKnow'
  <2>1. SUFFICES ASSUME NEW tab \in Tab, calls[tab] # None,
                        NEW i, i = calls[tab].invocation
                 PROVE  /\ CallKnows(calls[tab], i \in invoked)
                        /\ rows'[i] # None => CallKnowsRow(calls[tab], rows'[i])
                        /\ <<i, NotInvoked>> \notin told'
    BY DEF CallsKnow, RecoveryMoves, callVars
  <2>2. i \in Invocation
    BY <2>1 DEF Inv, TypeOK, Call
  <2>3. /\ CallKnows(calls[tab], i \in invoked)
        /\ rows[i] # None => CallKnowsRow(calls[tab], rows[i])
        /\ <<i, NotInvoked>> \notin told
    BY <2>1 DEF Inv, CallInv, CallsKnow
  <2>4. <<i, NotInvoked>> \notin told'
    BY <1>2, <2>3
  <2>5. rows'[i] # None => /\ rows[i] # None /\ rows'[i].state = rows[i].state
                           /\ rows'[i].method = rows[i].method
    BY <2>2 DEF RecoveryMoves, StatesKept, RowsGrow, Grows
  <2> QED
    BY <2>3, <2>4, <2>5 DEF CallKnowsRow
<1>6. InvokedInv'
  <2>1. \A i \in Invocation : rows'[i] # None =>
          /\ Evident(rows'[i]) => i \in invoked
          /\ rows'[i].state = "not-invoked" => i \notin invoked
    BY DEF Inv, CallInv, InvokedInv, RecoveryMoves, StatesKept
  <2>2. \A t \in told' :
          /\ t[2] # NotInvoked => t[1] \in invoked
          /\ t[2] = NotInvoked => t[1] \notin invoked
    BY <1>2 DEF Inv, CallInv, InvokedInv
  <2>3. \A t \in told' : t[2] = NotInvoked /\ rows'[t[1]] # None =>
          rows'[t[1]].state # "unknown"
    BY <1>2 DEF Inv, TypeOK, CallInv, InvokedInv, RecoveryMoves, StatesKept
  <2> QED
    BY <2>1, <2>2, <2>3 DEF InvokedInv, RecoveryMoves, callVars
<1>7. HeardIsTrue'
  BY DEF Inv, HeardIsTrue, Hears, RecoveryMoves, callVars
<1> QED
  BY <1>1, <1>3, <1>4, <1>5, <1>6, <1>7 DEF CallInv

\* No row changes but one of an invoked wallet's invocation.
LEMMA EvidenceStays ==
    ASSUME Inv, NEW i \in Invocation, i \in invoked,
           \A j \in Invocation : rows'[j] # None => j = i \/ rows'[j] = rows[j]
    PROVE  \A j \in Invocation : rows'[j] # None /\ Evident(rows'[j]) => j \in invoked
BY DEF Inv, CallInv, InvokedInv

LEMMA OperationTypes ==
    ASSUME Inv, NEW tab \in Tab, recovery[tab] # None
    PROVE  /\ recovery[tab] \in Recovery
           /\ recovery[tab].invocation \in Invocation
           /\ recovery[tab].invocation \in prepared
           /\ recovery[tab].copy \in Row
           /\ rows[recovery[tab].invocation] # None =>
                /\ rows[recovery[tab].invocation] \in Row
                /\ recovery[tab].copy.method = rows[recovery[tab].invocation].method
BY DEF Inv, TypeOK, CallInv, IdsAreKnown, Recovery, DebtInv, RecoveriesKnow, RecoveryKnows

\* The operation of a tab ends, or goes on to another step.
LEMMA EndsOrGoesOn ==
    ASSUME Inv, NEW tab \in Tab, NEW operation \in Recovery \cup {None},
           recovery' = [recovery EXCEPT ![tab] = operation],
           operation # None => operation.invocation \in prepared
    PROVE  /\ recovery' \in [Tab -> Recovery \cup {None}]
           /\ \A other \in Tab : recovery'[other] # None =>
                recovery'[other].invocation \in prepared
           /\ recovery'[tab] = operation
           /\ \A other \in Tab \ {tab} : recovery'[other] = recovery[other]
BY DEF Inv, TypeOK, CallInv, IdsAreKnown

\* A claim that may be made: it is one already, or the row holds it.
Grounded(i, outcome) ==
    \/ Claimed(i, outcome)
    \/ rows[i] # None /\ rows'[i] # None /\ Holds(rows'[i], outcome)

TellsGrounded ==
    \A t \in told' : t \notin told =>
      /\ t[1] \in invoked
      /\ t[2] \in Outcome /\ t[2] # NotInvoked
      /\ t = <<t[1], t[2]>>
      /\ Grounded(t[1], t[2])

\* The next operation of a tab: its copy is the one it has, or the row of today.
Continues(tab, operation) ==
    LET i == operation.invocation IN
    /\ i \in prepared
    /\ \/ recovery[tab] # None /\ recovery[tab].invocation = i
                               /\ operation.copy = recovery[tab].copy
       \/ rows[i] # None /\ rows'[i] = rows[i] /\ operation.copy = rows[i]
    /\ rows'[i] # None => RecoveryKnows(operation, rows'[i], i \in acked')

LEMMA ClaimsOfRecovery ==
    ASSUME Inv, UNCHANGED calls, TellsGrounded,
           NEW tab \in Tab, NEW operation \in Recovery \cup {None},
           recovery' = [recovery EXCEPT ![tab] = operation],
           operation # None => Continues(tab, operation),
           NEW i \in Invocation, NEW outcome \in Outcome, Claimed(i, outcome)'
    PROVE  Grounded(i, outcome)
<1>1. CASE <<i, outcome>> \in told' /\ outcome # NotInvoked
  BY <1>1 DEF TellsGrounded, Grounded, Claimed
<1>2. CASE \E other \in Tab : Read(other, i)' /\ Holds(recovery'[other].copy, outcome)
  <2>1. PICK other \in Tab : Read(other, i)' /\ Holds(recovery'[other].copy, outcome)
    BY <1>2
  <2>2. CASE other # tab
    <3>1. recovery'[other] = recovery[other]
      BY <2>2 DEF Inv, TypeOK
    <3> QED
      BY <2>1, <3>1 DEF Read, Claimed, Grounded
  <2>3. CASE other = tab
    <3>1. recovery'[tab] = operation /\ operation # None /\ operation.invocation = i
      BY <2>1, <2>3 DEF Inv, TypeOK, Read
    <3>2. Holds(operation.copy, outcome)
      BY <2>1, <2>3, <3>1
    <3> QED
      BY <3>1, <3>2 DEF Continues, Grounded, Claimed, Read
  <2> QED
    BY <2>2, <2>3
<1>3. CASE \E other \in Tab : /\ InCall(other, "saved")'
                              /\ calls'[other].invocation = i
                              /\ calls'[other].reply = outcome
  BY <1>3 DEF InCall, Claimed, Grounded
<1> QED
  BY <1>1, <1>2, <1>3 DEF Claimed

\* What a step of a recovery has to establish
LEMMA RecoveryKeeps ==
    ASSUME Inv, RowsGrow, StatesKept, UNCHANGED <<live, client, callVars>>,
           NEW tab \in Tab, NEW operation \in Recovery \cup {None},
           recovery' = [recovery EXCEPT ![tab] = operation],
           operation # None => Continues(tab, operation),
           TellsGrounded,
           \A i \in Invocation : rows'[i] # None /\ Evident(rows'[i]) => i \in invoked,
           acked \subseteq acked', acked' \subseteq invoked, AcknowledgedInOrder'
    PROVE  Inv'
<1>1. /\ recovery' \in [Tab -> Recovery \cup {None}]
      /\ \A other \in Tab : recovery'[other] # None => recovery'[other].invocation \in prepared
      /\ recovery'[tab] = operation
      /\ \A other \in Tab \ {tab} : recovery'[other] = recovery[other]
  BY EndsOrGoesOn DEF Continues
<1>2. told' \subseteq told \cup (invoked \X (Outcome \ {NotInvoked}))
  <2>1. \A t \in told' : t \in told \/ t \in invoked \X (Outcome \ {NotInvoked})
    BY DEF TellsGrounded
  <2> QED
    BY <2>1
<1>3. TypeOK' /\ CallInv' /\ HeardIsTrue'
  BY <1>1, <1>2, RecoveryFrame DEF RecoveryMoves
<1>4. ClaimInv'
  BY ClaimsOfRecovery, ClaimsKeep DEF Grounded, callVars
<1>5. RecoveriesKnow'
  BY <1>1, RecoveriesKeep DEF Continues
<1> QED
  BY <1>3, <1>4, <1>5 DEF Inv, DebtInv

\* None of it is at stake when only an operation starts, ends or goes on.
LEMMA RecoveryOnlyKeeps ==
    ASSUME Inv, UNCHANGED <<live, client, callVars, rows, told, acked>>,
           NEW tab \in Tab, NEW operation \in Recovery \cup {None},
           recovery' = [recovery EXCEPT ![tab] = operation],
           operation # None => Continues(tab, operation)
    PROVE  Inv'
<1>1. RowsGrow /\ StatesKept /\ DeliveriesKept
  BY SameRows
<1>2. TellsGrounded
  BY DEF TellsGrounded
<1>3. \A i \in Invocation : rows'[i] # None /\ Evident(rows'[i]) => i \in invoked
  BY DEF Inv, CallInv, InvokedInv
<1>4. AcknowledgedInOrder' /\ acked' \subseteq invoked
  BY DEF Inv, DebtInv, AcknowledgedInOrder, CallInv, IdsAreKnown
<1> QED
  BY <1>1, <1>2, <1>3, <1>4, RecoveryKeeps

LEMMA StartReadKeeps ==
    ASSUME Inv, NEW tab \in Tab, NEW i \in Invocation, StartRead(tab, i)
    PROVE  Inv'
<1>1. /\ recovery[tab] = None /\ rows[i] # None /\ rows[i] \in Row
      /\ UNCHANGED <<rows, acked, live, client, callVars>>
      /\ i \in prepared
  BY DEF StartRead, Start, SetRecovery, Inv, TypeOK, CallInv, IdsAreKnown
<1>2. CASE rows[i].final # None /\ Tell(i, rows[i].final) /\ UNCHANGED recovery
  <2>1. recovery' = [recovery EXCEPT ![tab] = None]
    BY <1>1, <1>2 DEF Inv, TypeOK
  <2>2. /\ i \in invoked /\ rows[i].final \in Outcome /\ rows[i].final # NotInvoked
        /\ Holds(rows[i], rows[i].final)
    <3>1. rows[i].final \in FinalsOf(rows[i].method) /\ rows[i].method \in Method
      BY <1>1, <1>2 DEF Inv, TypeOK, Row
    <3> QED
      BY <1>1, <1>2, <3>1, FinalForms DEF Inv, CallInv, InvokedInv, Evident, Holds
  <2>3. TellsGrounded
    BY <1>1, <1>2, <2>2 DEF TellsGrounded, Grounded, Tell
  <2>4. \A j \in Invocation : rows'[j] # None /\ Evident(rows'[j]) => j \in invoked
    BY <1>1 DEF Inv, CallInv, InvokedInv
  <2>5. AcknowledgedInOrder' /\ acked' \subseteq invoked
    BY <1>1 DEF Inv, DebtInv, AcknowledgedInOrder, CallInv, IdsAreKnown
  <2> QED
    BY <1>1, <2>1, <2>3, <2>4, <2>5, SameRows, RecoveryKeeps
<1>3. CASE Start(tab, i, "asking", FALSE) /\ UNCHANGED told
  <2> DEFINE operation == [ step |-> "asking", invocation |-> i, copy |-> rows[i],
                            acknowledging |-> FALSE, hash |-> None ]
  <2>1. operation \in Recovery /\ recovery' = [recovery EXCEPT ![tab] = operation]
    BY <1>1, <1>3 DEF Recovery, Start, SetRecovery
  <2>2. Continues(tab, operation)
    BY <1>1 DEF Continues, RecoveryKnows
  <2> QED
    BY <1>1, <1>3, <2>1, <2>2, RecoveryOnlyKeeps
<1> QED
  BY <1>2, <1>3 DEF StartRead

LEMMA StartAcknowledgeKeeps ==
    ASSUME Inv, NEW tab \in Tab, NEW i \in Invocation, StartAcknowledge(tab, i)
    PROVE  Inv'
<1>1. PICK step \in {"asking", "acknowledging", "accepting"} :
        /\ Start(tab, i, step, TRUE)
        /\ step # "asking" => rows[i].final # None /\ step = Acknowledging(rows[i])
  BY DEF StartAcknowledge, Acknowledging
<1>2. /\ rows[i] # None /\ rows[i] \in Row /\ i \in prepared
      /\ UNCHANGED <<rows, acked, told, live, client, callVars>>
  BY <1>1 DEF StartAcknowledge, Start, SetRecovery, Inv, TypeOK, CallInv, IdsAreKnown
<1> DEFINE operation == [ step |-> step, invocation |-> i, copy |-> rows[i],
                          acknowledging |-> TRUE, hash |-> None ]
<1>3. operation \in Recovery /\ recovery' = [recovery EXCEPT ![tab] = operation]
  BY <1>1, <1>2 DEF Recovery, Start, SetRecovery
<1>4. Continues(tab, operation)
  BY <1>1, <1>2 DEF Continues, RecoveryKnows, Acknowledging, Evident
<1> QED
  BY <1>2, <1>3, <1>4, RecoveryOnlyKeeps

LEMMA AnswerNotSubmittedKeeps ==
    ASSUME Inv, NEW tab \in Tab, AnswerNotSubmitted(tab)
    PROVE  Inv'
<1> DEFINE i == recovery[tab].invocation
           copy == recovery[tab].copy
<1>1. /\ recovery[tab] # None /\ i \in invoked
      /\ UNCHANGED <<acked, live, client, callVars>>
      /\ SaveProof(i) \/ (copy.notSubmitted /\ UNCHANGED rows)
  BY DEF AnswerNotSubmitted, Asked, InRecovery, SetRecovery, RecoveryStep
<1>2. /\ recovery[tab] \in Recovery /\ i \in Invocation /\ i \in prepared
      /\ copy \in Row
  BY <1>1, OperationTypes
<1>3. /\ RowsGrow /\ StatesKept /\ DeliveriesKept
      /\ \A j \in Invocation : rows'[j] # None => j = i \/ rows'[j] = rows[j]
  <2>1. CASE SaveProof(i)
    BY <1>2, <2>1, SaveProofGrows DEF SaveProof, Inv, TypeOK
  <2>2. CASE UNCHANGED rows
    BY <2>2, SameRows
  <2> QED
    BY <1>1, <2>1, <2>2
<1>4. Grounded(i, NotSubmitted)
  <2>1. CASE SaveProof(i)
    BY <1>2, <2>1, SaveProofGrows DEF Grounded, Holds
  <2>2. CASE copy.notSubmitted
    BY <1>1, <2>2 DEF Grounded, Claimed, Read, Holds
  <2> QED
    BY <1>1, <2>1, <2>2
<1>5. AcknowledgedInOrder' /\ acked' \subseteq invoked
  BY <1>1, <1>3, DebtsKeep DEF Inv, CallInv, IdsAreKnown
<1>6. \A j \in Invocation : rows'[j] # None /\ Evident(rows'[j]) => j \in invoked
  BY <1>1, <1>2, <1>3, EvidenceStays
<1>7. CASE /\ recovery[tab].acknowledging /\ copy.notSubmitted
           /\ RecoveryStep(tab, "acknowledging") /\ UNCHANGED told
  <2> DEFINE operation == [recovery[tab] EXCEPT !.step = "acknowledging"]
  <2>1. /\ operation \in Recovery /\ recovery' = [recovery EXCEPT ![tab] = operation]
        /\ operation.invocation = i /\ operation.copy = copy
        /\ operation.step = "acknowledging" /\ operation.hash = recovery[tab].hash
    BY <1>2, <1>7 DEF Recovery, RecoveryStep, SetRecovery
  <2> HIDE DEF operation
  <2>2. rows'[i] # None => /\ rows[i] # None /\ Grows(rows[i], rows'[i])
                           /\ RecoveryKnows(recovery[tab], rows[i], i \in acked)
    BY <1>1, <1>2, <1>3 DEF RowsGrow, Inv, DebtInv, RecoveriesKnow
  <2>3. rows'[i] # None => Evident(rows'[i])
    <3>1. CASE SaveProof(i)
      BY <1>2, <3>1, SaveProofGrows DEF Evident
    <3>2. CASE UNCHANGED rows
      <4>1. rows[i] # None => Holds(rows[i], NotSubmitted)
        BY <1>2, <1>4, <3>2 DEF Grounded, Inv, ClaimInv, ClaimsAreHeld, Outcome
      <4>2. rows[i] # None => rows[i].notSubmitted \/ rows[i].final # None
        BY <4>1, Absent DEF Holds, NoneIsNone, Outcome
      <4> QED
        BY <3>2, <4>2 DEF Evident
    <3> QED
      BY <1>1, <3>1, <3>2
  <2>4. Continues(tab, operation)
    BY <1>1, <1>2, <2>1, <2>2, <2>3 DEF Continues, RecoveryKnows, Grows
  <2>5. TellsGrounded
    BY <1>7 DEF TellsGrounded
  <2> QED
    BY <1>1, <1>3, <1>5, <1>6, <2>1, <2>4, <2>5, RecoveryKeeps
<1>8. CASE SetRecovery(tab, None) /\ MayTell(i, NotSubmitted)
  <2>1. NotSubmitted \in Outcome /\ NotSubmitted # NotInvoked
    BY DEF Outcome, NotSubmitted, NotInvoked
  <2>2. TellsGrounded
    BY <1>1, <1>4, <1>8, <2>1 DEF TellsGrounded, MayTell, Tell
  <2>3. recovery' = [recovery EXCEPT ![tab] = None]
    BY <1>8 DEF SetRecovery
  <2> QED
    BY <1>1, <1>3, <1>5, <1>6, <2>2, <2>3, RecoveryKeeps
<1> QED
  BY <1>7, <1>8 DEF AnswerNotSubmitted

LEMMA AnswerUnresolvedKeeps ==
    ASSUME Inv, NEW tab \in Tab, AnswerUnresolved(tab)
    PROVE  Inv'
<1> DEFINE i == recovery[tab].invocation
           copy == recovery[tab].copy
<1>1. /\ recovery[tab] # None /\ i \in invoked
      /\ UNCHANGED <<acked, told, live, client, callVars>>
  BY DEF AnswerUnresolved, Asked, InRecovery, SetRecovery
<1>2. /\ recovery[tab] \in Recovery /\ i \in Invocation /\ i \in prepared
      /\ copy \in Row
  BY <1>1, OperationTypes
<1>3. CASE SetRecovery(tab, None) /\ UNCHANGED rows
  BY <1>1, <1>3, RecoveryOnlyKeeps DEF SetRecovery
<1>4. ASSUME NEW tx \in Tx, SaveHash(i, tx),
             \/ SetRecovery(tab, None)
             \/ SetRecovery(tab, [recovery[tab] EXCEPT
                                   !.step = Acknowledging(copy), !.hash = tx])
      PROVE  Inv'
  <2>1. /\ RowsGrow /\ StatesKept /\ DeliveriesKept
        /\ rows[i] # None /\ rows'[i].hash = tx /\ rows'[i].method = "submit"
        /\ ~rows'[i].notSubmitted /\ rows'[i] # None
        /\ \A j \in Invocation : rows'[j] # None => j = i \/ rows'[j] = rows[j]
    BY <1>2, <1>4, SaveHashGrows DEF SaveHash, Inv, TypeOK
  <2>2. AcknowledgedInOrder' /\ acked' \subseteq invoked
    BY <1>1, <2>1, DebtsKeep DEF Inv, CallInv, IdsAreKnown
  <2>3. \A j \in Invocation : rows'[j] # None /\ Evident(rows'[j]) => j \in invoked
    BY <1>1, <1>2, <2>1, EvidenceStays
  <2>4. TellsGrounded
    BY <1>1 DEF TellsGrounded
  <2>5. CASE SetRecovery(tab, None)
    <3>1. recovery' = [recovery EXCEPT ![tab] = None]
      BY <2>5 DEF SetRecovery
    <3> QED
      BY <1>1, <2>1, <2>2, <2>3, <2>4, <3>1, RecoveryKeeps
  <2>6. CASE SetRecovery(tab, [recovery[tab] EXCEPT
                               !.step = Acknowledging(copy), !.hash = tx])
    <3> DEFINE operation == [recovery[tab] EXCEPT
                             !.step = Acknowledging(copy), !.hash = tx]
    <3>1. /\ operation \in Recovery /\ recovery' = [recovery EXCEPT ![tab] = operation]
          /\ operation.invocation = i /\ operation.copy = copy
          /\ operation.step = Acknowledging(copy) /\ operation.hash = tx
      BY <1>2, <2>6 DEF Recovery, SetRecovery, Acknowledging
    <3> HIDE DEF operation
    <3>2. /\ copy.method = rows'[i].method /\ copy.required = rows'[i].required
      BY <1>1, <1>2, <2>1 DEF RowsGrow, Grows, Inv, DebtInv, RecoveriesKnow, RecoveryKnows
    <3>3. RecoveryKnows(operation, rows'[i], i \in acked')
      BY <2>1, <3>1, <3>2, Absent
         DEF RecoveryKnows, Acknowledging, Owed, Evident, NoneIsNone
    <3>4. Continues(tab, operation)
      BY <1>1, <1>2, <3>1, <3>3 DEF Continues
    <3> QED
      BY <1>1, <2>1, <2>2, <2>3, <2>4, <3>1, <3>4, RecoveryKeeps
  <2> QED
    BY <1>4, <2>5, <2>6
<1> QED
  BY <1>3, <1>4 DEF AnswerUnresolved

LEMMA AnswerFinalKeeps ==
    ASSUME Inv, NEW tab \in Tab, AnswerFinal(tab)
    PROVE  Inv'
<1> DEFINE i == recovery[tab].invocation
           copy == recovery[tab].copy
<1>1. /\ recovery[tab] # None /\ i \in invoked
      /\ UNCHANGED <<acked, live, client, callVars>>
      /\ recovery' = [recovery EXCEPT ![tab] = None]
  BY DEF AnswerFinal, Asked, InRecovery, SetRecovery
<1>2. /\ i \in Invocation /\ copy \in Row
      /\ rows[i] # None => copy.method = rows[i].method
  BY <1>1, OperationTypes
<1>3. PICK final \in FinalsOf(copy.method) :
        /\ \/ SaveFinal(i, final)
           \/ copy.final = final /\ UNCHANGED rows
        /\ told' = told \cup {<<i, final>>} \/ UNCHANGED told
  BY DEF AnswerFinal, MayTell, Tell
<1>4. final \in Outcome /\ final # NotInvoked
  BY <1>2, <1>3, FinalForms DEF Row
<1>5. /\ RowsGrow /\ StatesKept /\ DeliveriesKept
      /\ \A j \in Invocation : rows'[j] # None => j = i \/ rows'[j] = rows[j]
      /\ Grounded(i, final)
  <2>1. CASE SaveFinal(i, final)
    BY <1>2, <1>3, <2>1, SaveFinalGrows DEF SaveFinal, Inv, TypeOK, Grounded, Holds
  <2>2. CASE copy.final = final /\ UNCHANGED rows
    BY <1>1, <2>2, SameRows DEF Grounded, Claimed, Read, Holds
  <2> QED
    BY <1>3, <2>1, <2>2
<1>6. AcknowledgedInOrder' /\ acked' \subseteq invoked
  BY <1>1, <1>5, DebtsKeep DEF Inv, CallInv, IdsAreKnown
<1>7. \A j \in Invocation : rows'[j] # None /\ Evident(rows'[j]) => j \in invoked
  BY <1>1, <1>2, <1>5, EvidenceStays
<1>8. TellsGrounded
  BY <1>1, <1>3, <1>4, <1>5 DEF TellsGrounded
<1> QED
  BY <1>1, <1>5, <1>6, <1>7, <1>8, RecoveryKeeps

LEMMA WalletAcknowledgesKeeps ==
    ASSUME Inv, NEW tab \in Tab, WalletAcknowledges(tab)
    PROVE  Inv'
<1> DEFINE i == recovery[tab].invocation
           next == IF recovery[tab].hash # None THEN "reconciling" ELSE "accepting"
           operation == [recovery[tab] EXCEPT !.step = next]
<1>1. /\ recovery[tab] # None /\ recovery[tab].step = "acknowledging"
      /\ i \in invoked /\ acked' = acked \cup {i}
      /\ UNCHANGED <<rows, told, live, client, callVars>>
      /\ recovery' = [recovery EXCEPT ![tab] = operation]
  BY DEF WalletAcknowledges, InRecovery, RecoveryStep, SetRecovery
<1>2. recovery[tab] \in Recovery /\ i \in Invocation /\ i \in prepared
  BY <1>1, OperationTypes
<1>3. /\ operation \in Recovery /\ operation.invocation = i
      /\ operation.copy = recovery[tab].copy
      /\ operation.step = next /\ operation.hash = recovery[tab].hash
  BY <1>2 DEF Recovery
<1>4. rows[i] # None => RecoveryKnows(recovery[tab], rows[i], i \in acked)
  BY <1>1 DEF Inv, DebtInv, RecoveriesKnow
<1> HIDE DEF operation
<1>5. Continues(tab, operation)
  BY <1>1, <1>2, <1>3, <1>4 DEF Continues, RecoveryKnows
<1>6. AcknowledgedInOrder' /\ acked' \subseteq invoked
  BY <1>1, <1>4, SameRows, DebtsKeep DEF RecoveryKnows, Inv, CallInv, IdsAreKnown
<1>7. \A j \in Invocation : rows'[j] # None /\ Evident(rows'[j]) => j \in invoked
  BY <1>1 DEF Inv, CallInv, InvokedInv
<1>8. TellsGrounded
  BY <1>1 DEF TellsGrounded
<1> QED
  BY <1>1, <1>3, <1>5, <1>6, <1>7, <1>8, SameRows, RecoveryKeeps

LEMMA SaveReconciledKeeps ==
    ASSUME Inv, NEW tab \in Tab, SaveReconciled(tab)
    PROVE  Inv'
<1> DEFINE i == recovery[tab].invocation
           operation == [recovery[tab] EXCEPT !.step = "accepting"]
           final == Approved(recovery[tab].hash)
<1>1. /\ recovery[tab] # None /\ recovery[tab].step = "reconciling"
      /\ SaveFinal(i, final)
      /\ UNCHANGED <<acked, told, live, client, callVars>>
      /\ recovery' = [recovery EXCEPT ![tab] = operation]
  BY DEF SaveReconciled, InRecovery, RecoveryStep, SetRecovery
<1>2. recovery[tab] \in Recovery /\ i \in Invocation /\ i \in prepared
  BY <1>1, OperationTypes
<1>3. /\ operation \in Recovery /\ operation.invocation = i
      /\ operation.copy = recovery[tab].copy
      /\ operation.step = "accepting" /\ operation.hash = recovery[tab].hash
  BY <1>2 DEF Recovery
<1>4. rows[i] # None /\ RecoveryKnows(recovery[tab], rows[i], i \in acked)
  BY <1>1 DEF Inv, DebtInv, RecoveriesKnow, SaveFinal, CanSaveFinal
<1>5. final \in FinalsOf(rows[i].method)
  BY <1>1, <1>2, <1>4 DEF RecoveryKnows, Recovery, FinalsOf, Results
<1> HIDE DEF operation
<1>6. /\ RowsGrow /\ StatesKept /\ DeliveriesKept
      /\ \A j \in Invocation : rows'[j] # None => j = i \/ rows'[j] = rows[j]
  BY <1>1, <1>2, <1>5, SaveFinalGrows DEF SaveFinal, Inv, TypeOK
<1>7. Continues(tab, operation)
  BY <1>1, <1>2, <1>3, <1>4, <1>6
     DEF Continues, RecoveryKnows, RowsGrow, Grows, Evident, Owed
<1>8. AcknowledgedInOrder' /\ acked' \subseteq invoked
  BY <1>1, <1>6, DebtsKeep DEF Inv, CallInv, IdsAreKnown
<1>9. i \in invoked
  BY <1>1, <1>2, <1>4 DEF RecoveryKnows, Inv, CallInv, InvokedInv
<1>10. \A j \in Invocation : rows'[j] # None /\ Evident(rows'[j]) => j \in invoked
  BY <1>2, <1>6, <1>9, EvidenceStays
<1>11. TellsGrounded
  BY <1>1 DEF TellsGrounded
<1> QED
  BY <1>1, <1>3, <1>6, <1>7, <1>8, <1>10, <1>11, RecoveryKeeps

\* Nothing but rows changes.
LEMMA RowsOnlyKeeps ==
    ASSUME Inv, RowsGrow, StatesKept,
           UNCHANGED <<live, client, callVars, recoveryVars, told>>,
           \A i \in Invocation : rows'[i] # None /\ Evident(rows'[i]) => i \in invoked,
           AcknowledgedInOrder'
    PROVE  Inv'
<1>1. TypeOK' /\ CallInv' /\ HeardIsTrue'
  <2>1. /\ recovery' \in [Tab -> Recovery \cup {None}]
        /\ told' \subseteq told \cup (invoked \X (Outcome \ {NotInvoked}))
    BY DEF Inv, TypeOK, recoveryVars
  <2> QED
    BY <2>1, RecoveryFrame DEF RecoveryMoves, Inv, CallInv, IdsAreKnown, recoveryVars
<1>2. ClaimInv'
  <2>1. \A i \in Invocation, o \in Outcome : Claimed(i, o)' => Claimed(i, o)
    BY DEF Claimed, Read, InCall, callVars, recoveryVars
  <2> QED
    BY <2>1, ClaimsKeep
<1>3. RecoveriesKnow'
  BY RecoveriesKeep DEF recoveryVars
<1> QED
  BY <1>1, <1>2, <1>3 DEF Inv, DebtInv

\* Only the delivery of one row changes.
LEMMA DeliveryKeeps ==
    ASSUME Inv, UNCHANGED <<live, client, callVars, acked, told>>,
           NEW i \in Invocation, NEW delivery \in {"acknowledged", "archived"},
           Deliver(i, delivery),
           \/ UNCHANGED recovery
           \/ \E tab \in Tab : recovery' = [recovery EXCEPT ![tab] = None],
           delivery = "acknowledged" /\ Owed(rows[i]) => i \in acked
    PROVE  Inv'
<1>1. /\ RowsGrow /\ StatesKept /\ rows[i] # None /\ rows[i] \in Row
      /\ rows'[i] = [rows[i] EXCEPT !.delivery = delivery]
      /\ \A j \in Invocation \ {i} : rows'[j] = rows[j]
  BY DeliverGrows DEF Inv, TypeOK
<1>2. /\ rows'[i].final = rows[i].final /\ rows'[i].hash = rows[i].hash
      /\ rows'[i].notSubmitted = rows[i].notSubmitted
      /\ rows'[i].required = rows[i].required /\ rows'[i].delivery = delivery
  BY <1>1 DEF Row
<1>3. \A j \in Invocation : rows'[j] # None /\ Evident(rows'[j]) => j \in invoked
  BY <1>1, <1>2 DEF Evident, Inv, CallInv, InvokedInv
<1>4. AcknowledgedInOrder'
  BY <1>1, <1>2 DEF AcknowledgedInOrder, Inv, DebtInv, Owed
<1>5. TellsGrounded /\ acked' \subseteq invoked
  BY DEF TellsGrounded, Inv, CallInv, IdsAreKnown
<1>6. CASE \E tab \in Tab : recovery' = [recovery EXCEPT ![tab] = None]
  BY <1>1, <1>3, <1>4, <1>5, <1>6, RecoveryKeeps
<1>7. CASE UNCHANGED recovery
  BY <1>1, <1>3, <1>4, <1>7, RowsOnlyKeeps DEF recoveryVars
<1> QED
  BY <1>6, <1>7

LEMMA AcceptKeeps ==
    ASSUME Inv, NEW tab \in Tab, Accept(tab)
    PROVE  Inv'
<1>1. /\ recovery[tab] # None /\ recovery[tab].step = "accepting"
      /\ recovery[tab].invocation \in Invocation
  BY OperationTypes DEF Accept, InRecovery
<1>2. /\ Deliver(recovery[tab].invocation, "acknowledged")
      /\ UNCHANGED <<live, client, callVars, acked, told>>
      /\ recovery' = [recovery EXCEPT ![tab] = None]
  BY DEF Accept, SetRecovery
<1>3. Owed(rows[recovery[tab].invocation]) => recovery[tab].invocation \in acked
  BY <1>1, <1>2 DEF Inv, DebtInv, RecoveriesKnow, RecoveryKnows, Deliver, CanDeliver
<1> QED
  BY <1>1, <1>2, <1>3, DeliveryKeeps

LEMMA RecoveryFailsKeeps ==
    ASSUME Inv, NEW tab \in Tab, RecoveryFails(tab)
    PROVE  Inv'
BY RecoveryOnlyKeeps DEF RecoveryFails, SetRecovery

LEMMA ArchiveKeeps ==
    ASSUME Inv, NEW i \in Invocation, Archive(i)
    PROVE  Inv'
BY DeliveryKeeps DEF Archive, recoveryVars

LEMMA PruneKeeps ==
    ASSUME Inv, NEW i \in Invocation, Prune(i)
    PROVE  Inv'
<1>1. rows' = [rows EXCEPT ![i] = None]
  BY DEF Prune
<1>2. \A j \in Invocation : rows'[j] # None => rows'[j] = rows[j]
  BY <1>1 DEF Inv, TypeOK
<1>3. \A j \in Invocation : rows'[j] # None /\ Evident(rows'[j]) => j \in invoked
  BY <1>2 DEF Inv, CallInv, InvokedInv
<1>4. AcknowledgedInOrder'
  BY <1>2 DEF AcknowledgedInOrder, Inv, DebtInv, Prune, recoveryVars
<1> QED
  BY <1>1, <1>3, <1>4, FewerRows, RowsOnlyKeeps DEF Prune

------------------------------------------------------------------------------
(* The steps of a call                                                     *)

\* What a step of the call of invocation i leaves, with the call as it goes on.
CallLeaves(i, call) ==
    /\ call # None => /\ call.invocation = i
                      /\ CallKnows(call, i \in invoked')
                      /\ rows'[i] # None => CallKnowsRow(call, rows'[i])
                      /\ <<i, NotInvoked>> \notin told'
                      /\ call.step = "saved" => Grounded(i, call.reply)
    /\ rows'[i] # None => /\ Evident(rows'[i]) => i \in invoked'
                          /\ rows'[i].state = "not-invoked" => i \notin invoked'

\* What it tells.
CallTells(i) ==
    \A t \in told' :
      /\ t \in told \/ t \in {i} \X Outcome
      /\ t[1] = i /\ t[2] # NotInvoked => i \in invoked' /\ (t \in told \/ Grounded(i, t[2]))
      /\ t[1] = i /\ t[2] = NotInvoked => /\ i \notin invoked'
                                          /\ rows'[i] # None => rows'[i].state # "unknown"

OnlyRow(i) ==
    \A j \in Invocation : rows'[j] # None => /\ rows[j] # None
                                             /\ j = i \/ rows'[j] = rows[j]

LEMMA ClaimsOfCall ==
    ASSUME Inv, UNCHANGED recovery,
           NEW tab \in Tab, NEW i, NEW call \in Call \cup {None},
           calls' = [calls EXCEPT ![tab] = call], CallLeaves(i, call), CallTells(i),
           NEW j \in Invocation, NEW outcome \in Outcome, Claimed(j, outcome)'
    PROVE  Grounded(j, outcome)
<1>1. CASE <<j, outcome>> \in told' /\ outcome # NotInvoked
  <2> DEFINE t == <<j, outcome>>
  <2>1. t[1] = j /\ t[2] = outcome
    OBVIOUS
  <2>2. t \in told \/ t[1] = i
    BY <1>1 DEF CallTells
  <2> QED
    BY <1>1, <2>1, <2>2 DEF CallTells, Grounded, Claimed
<1>2. CASE \E other \in Tab : Read(other, j)' /\ Holds(recovery'[other].copy, outcome)
  BY <1>2 DEF Read, Claimed, Grounded
<1>3. CASE \E other \in Tab : /\ InCall(other, "saved")'
                              /\ calls'[other].invocation = j
                              /\ calls'[other].reply = outcome
  <2>1. PICK other \in Tab : /\ calls'[other] # None /\ calls'[other].step = "saved"
                             /\ calls'[other].invocation = j
                             /\ calls'[other].reply = outcome
    BY <1>3 DEF InCall
  <2>2. CASE other # tab
    BY <2>1, <2>2 DEF Inv, TypeOK, InCall, Claimed, Grounded
  <2>3. CASE other = tab
    BY <2>1, <2>3 DEF Inv, TypeOK, CallLeaves
  <2> QED
    BY <2>2, <2>3
<1> QED
  BY <1>1, <1>2, <1>3 DEF Claimed

LEMMA CallKeeps ==
    ASSUME Inv, NEW tab \in Tab, calls[tab] # None,
           NEW i, i = calls[tab].invocation,
           NEW call \in Call \cup {None}, SetCall(tab, call), UNCHANGED prepared,
           RowsGrow, DeliveriesKept, OnlyRow(i),
           invoked \subseteq invoked', invoked' \subseteq invoked \cup {i},
           CallLeaves(i, call), CallTells(i), call # None => Hears(tab, call)
    PROVE  Inv'
<1>1. /\ calls' = [calls EXCEPT ![tab] = call]
      /\ UNCHANGED <<live, client, recovery, acked, prepared>>
      /\ i \in Invocation /\ i \in prepared
      /\ calls'[tab] = call
      /\ \A other \in Tab \ {tab} : calls'[other] = calls[other]
  BY DEF SetCall, recoveryVars, Inv, TypeOK, Call, CallInv, IdsAreKnown
<1>2. \A t \in told' : t \in told \/ (t[1] = i /\ t[2] \in Outcome /\ t \in {i} \X Outcome)
  BY DEF CallTells
<1>3. TypeOK'
  <2>1. told' \subseteq Invocation \X Outcome
    BY <1>1, <1>2 DEF Inv, TypeOK
  <2> QED
    BY <1>1, <2>1 DEF Inv, TypeOK, RowsGrow
<1>4. IdsAreKnown'
  <2>1. \A j \in Invocation : rows'[j] # None => j \in prepared
    BY DEF OnlyRow, Inv, CallInv, IdsAreKnown
  <2>2. \A other \in Tab : calls'[other] # None => calls'[other].invocation \in prepared
    BY <1>1 DEF CallLeaves, Inv, CallInv, IdsAreKnown
  <2> QED
    BY <1>1, <1>2, <2>1, <2>2 DEF Inv, CallInv, IdsAreKnown
<1>5. OneCallEach'
  BY <1>1 DEF CallLeaves, Inv, CallInv, OneCallEach
<1>6. CallsKnow'
  <2>1. SUFFICES ASSUME NEW other \in Tab, calls'[other] # None,
                        NEW j, j = calls'[other].invocation
                 PROVE  /\ CallKnows(calls'[other], j \in invoked')
                        /\ rows'[j] # None => CallKnowsRow(calls'[other], rows'[j])
                        /\ <<j, NotInvoked>> \notin told'
    BY DEF CallsKnow
  <2>2. CASE other = tab
    BY <1>1, <2>1, <2>2 DEF CallLeaves
  <2>3. CASE other # tab
    <3>1. calls'[other] = calls[other] /\ j # i /\ j \in Invocation
      BY <1>1, <2>1, <2>3 DEF Inv, TypeOK, Call, CallInv, OneCallEach
    <3>2. /\ CallKnows(calls[other], j \in invoked)
          /\ rows[j] # None => CallKnowsRow(calls[other], rows[j])
          /\ <<j, NotInvoked>> \notin told
      BY <2>1, <3>1 DEF Inv, CallInv, CallsKnow
    <3>3. j \in invoked' <=> j \in invoked
      BY <3>1
    <3>4. rows'[j] # None => rows[j] # None /\ rows'[j] = rows[j]
      BY <3>1 DEF OnlyRow
    <3>5. <<j, NotInvoked>> \notin told'
      BY <1>2, <3>1, <3>2
    <3> QED
      BY <3>1, <3>2, <3>3, <3>4, <3>5 DEF CallKnows
  <2> QED
    BY <2>2, <2>3
<1>7. InvokedInv'
  <2>1. \A j \in Invocation : rows'[j] # None =>
          /\ Evident(rows'[j]) => j \in invoked'
          /\ rows'[j].state = "not-invoked" => j \notin invoked'
    BY DEF CallLeaves, OnlyRow, Inv, CallInv, InvokedInv
  <2>2. ASSUME NEW t \in told'
        PROVE  /\ t[2] # NotInvoked => t[1] \in invoked'
               /\ t[2] = NotInvoked => /\ t[1] \notin invoked'
                                       /\ rows'[t[1]] # None => rows'[t[1]].state # "unknown"
    <3>1. CASE t[1] = i
      <4>1. /\ t[2] # NotInvoked => i \in invoked'
            /\ t[2] = NotInvoked => /\ i \notin invoked'
                                    /\ rows'[i] # None => rows'[i].state # "unknown"
        BY <3>1 DEF CallTells
      <4> QED
        BY <3>1, <4>1
    <3>2. CASE t[1] # i
      <4>1. t \in told /\ t[1] \in Invocation
        BY <1>2, <3>2 DEF Inv, TypeOK
      <4>2. t[1] \in invoked' <=> t[1] \in invoked
        BY <3>2
      <4>3. rows'[t[1]] # None => rows[t[1]] # None /\ rows'[t[1]] = rows[t[1]]
        BY <3>2, <4>1 DEF OnlyRow
      <4> QED
        BY <4>1, <4>2, <4>3 DEF Inv, CallInv, InvokedInv
    <3> QED
      BY <3>1, <3>2
  <2> QED
    BY <2>1, <2>2 DEF InvokedInv
<1>8. ClaimInv'
  BY <1>1, ClaimsOfCall, ClaimsKeep DEF Grounded
<1>9. DebtInv'
  BY <1>1, DebtFrame
<1>10. HeardIsTrue'
  BY <1>1 DEF Hears, Inv, HeardIsTrue
<1> QED
  BY <1>3, <1>4, <1>5, <1>6, <1>7, <1>8, <1>9, <1>10 DEF Inv, CallInv

\* A call in progress
CallHere(tab) ==
    LET call == calls[tab]
        i == call.invocation
    IN  /\ call \in Call /\ i \in Invocation /\ i \in prepared
        /\ rows[i] # None => rows[i] \in Row
        /\ CallKnows(call, i \in invoked)
        /\ rows[i] # None => /\ CallKnowsRow(call, rows[i])
                             /\ Evident(rows[i]) => i \in invoked
        /\ <<i, NotInvoked>> \notin told
        /\ call.step = "saved" => Claimed(i, call.reply)
        /\ Hears(tab, call)

LEMMA HereIsACall ==
    ASSUME Inv, NEW tab \in Tab, calls[tab] # None
    PROVE  CallHere(tab)
<1>1. calls[tab] \in Call /\ calls[tab].invocation \in Invocation
  BY DEF Inv, TypeOK, Call
<1>2. /\ calls[tab].invocation \in prepared
      /\ rows[calls[tab].invocation] # None => rows[calls[tab].invocation] \in Row
  BY <1>1 DEF Inv, TypeOK, CallInv, IdsAreKnown
<1>3. /\ CallKnows(calls[tab], calls[tab].invocation \in invoked)
      /\ rows[calls[tab].invocation] # None =>
           /\ CallKnowsRow(calls[tab], rows[calls[tab].invocation])
           /\ Evident(rows[calls[tab].invocation]) => calls[tab].invocation \in invoked
      /\ <<calls[tab].invocation, NotInvoked>> \notin told
  BY <1>1 DEF Inv, CallInv, CallsKnow, InvokedInv
<1>4. calls[tab].step = "saved" => Claimed(calls[tab].invocation, calls[tab].reply)
  BY DEF Claimed, InCall
<1>5. Hears(tab, calls[tab])
  BY DEF Hears, Inv, HeardIsTrue
<1> QED
  BY <1>1, <1>2, <1>3, <1>4, <1>5 DEF CallHere

LEMMA TellsNothing ==
    ASSUME Inv, NEW i, <<i, NotInvoked>> \notin told, UNCHANGED told,
           invoked \subseteq invoked'
    PROVE  CallTells(i)
<1>1. SUFFICES ASSUME NEW t \in told, t[1] = i
               PROVE  t[2] # NotInvoked /\ i \in invoked'
  BY DEF CallTells
<1>2. t = <<t[1], t[2]>>
  BY DEF Inv, TypeOK
<1>3. t[2] # NotInvoked
  BY <1>1, <1>2
<1> QED
  BY <1>1, <1>3 DEF Inv, CallInv, InvokedInv

LEMMA TellsReply ==
    ASSUME Inv, NEW i, <<i, NotInvoked>> \notin told, i \in invoked, UNCHANGED invoked,
           NEW outcome \in Outcome \ {NotInvoked}, Tell(i, outcome), Grounded(i, outcome)
    PROVE  CallTells(i)
<1>1. told' = told \cup {<<i, outcome>>}
  BY DEF Tell
<1>2. ASSUME NEW t \in told, t[1] = i
      PROVE  t[2] # NotInvoked
  <2>1. t = <<t[1], t[2]>>
    BY DEF Inv, TypeOK
  <2> QED
    BY <1>2, <2>1
<1> QED
  BY <1>1, <1>2 DEF CallTells

\* The rows, the dapp and the wallet see nothing of the step.
LEMMA CallOnlyKeeps ==
    ASSUME Inv, NEW tab \in Tab, calls[tab] # None,
           UNCHANGED <<rows, told, invoked, prepared>>,
           NEW call \in Call \cup {None}, SetCall(tab, call),
           call # None =>
             /\ call.invocation = calls[tab].invocation
             /\ call.method = calls[tab].method
             /\ CallKnows(call, call.invocation \in invoked)
             /\ call.step = "hook" => calls[tab].step = "hook"
             /\ call.step = "saved" => calls[tab].step = "saved" /\ call.reply = calls[tab].reply
             /\ Hears(tab, call)
    PROVE  Inv'
<1> DEFINE i == calls[tab].invocation
<1>1. CallHere(tab)
  BY HereIsACall
<1>2. CallTells(i)
  BY <1>1, TellsNothing DEF CallHere
<1>3. rows[i] # None => /\ Evident(rows[i]) => i \in invoked
                        /\ rows[i].state = "not-invoked" => i \notin invoked
  BY <1>1 DEF CallHere, CallKnowsRow
<1>4. CallLeaves(i, call)
  BY <1>1, <1>3 DEF CallHere, CallLeaves, CallKnowsRow, Grounded
<1>5. OnlyRow(i)
  BY DEF OnlyRow
<1> QED
  BY <1>2, <1>4, <1>5, SameRows, CallKeeps

LEMMA SeeAccountKeeps ==
    ASSUME Inv, NEW tab \in Tab, SeeAccount(tab)
    PROVE  Inv'
<1> DEFINE call == [calls[tab] EXCEPT !.seen = live.account,
                                      !.fresh = tab \notin Bound \/ @,
                                      !.heard = client[tab].listening = Listened]
<1>1. /\ calls[tab] # None /\ SetCall(tab, call)
      /\ UNCHANGED <<rows, told, invoked, prepared>>
  BY DEF SeeAccount, InCall
<1>2. CallHere(tab) /\ live \in Scope
  BY <1>1, HereIsACall DEF Inv, TypeOK
<1>3. /\ call \in Call
      /\ call.invocation = calls[tab].invocation /\ call.method = calls[tab].method
      /\ call.step = calls[tab].step /\ call.reply = calls[tab].reply
      /\ call.seen = live.account /\ call.heard = (client[tab].listening = Listened)
  BY <1>2 DEF CallHere, Call, Scope
<1> HIDE DEF call
<1>4. CallKnows(call, call.invocation \in invoked) /\ Hears(tab, call)
  BY <1>2, <1>3 DEF CallHere, CallKnows, Hears
<1> QED
  BY <1>1, <1>3, <1>4, CallOnlyKeeps

LEMMA RepliesKeeps ==
    ASSUME Inv, NEW tab \in Tab, Replies(tab)
    PROVE  Inv'
<1>1. PICK final \in FinalsOf(calls[tab].method) :
        SetCall(tab, [calls[tab] EXCEPT !.step = "replied", !.reply = final])
  BY DEF Replies
<1> DEFINE call == [calls[tab] EXCEPT !.step = "replied", !.reply = final]
<1>2. /\ calls[tab] # None /\ SetCall(tab, call)
      /\ calls[tab].invocation \in invoked
      /\ UNCHANGED <<rows, told, invoked, prepared>>
  BY <1>1 DEF Replies, InCall
<1>3. CallHere(tab)
  BY <1>2, HereIsACall
<1>4. final \in Final
  BY <1>3, FinalForms DEF CallHere, Call
<1>5. /\ call \in Call
      /\ call.invocation = calls[tab].invocation /\ call.method = calls[tab].method
      /\ call.step = "replied" /\ call.reply = final
      /\ call.seen = calls[tab].seen /\ call.heard = calls[tab].heard
      /\ call.fresh = calls[tab].fresh
  BY <1>3, <1>4 DEF CallHere, Call
<1> HIDE DEF call
<1>6. CallKnows(call, call.invocation \in invoked) /\ Hears(tab, call)
  BY <1>2, <1>3, <1>5 DEF CallHere, CallKnows, Hears
<1> QED
  BY <1>2, <1>5, <1>6, CallOnlyKeeps

LEMMA WithholdKeeps ==
    ASSUME Inv, NEW tab \in Tab, Withhold(tab)
    PROVE  Inv'
BY CallOnlyKeeps DEF Withhold, InCall

LEMMA ConfirmKeeps ==
    ASSUME Inv, NEW tab \in Tab, Confirm(tab)
    PROVE  Inv'
<1> DEFINE call == Checked(tab, "confirmed")
<1>1. /\ calls[tab] # None /\ calls[tab].step = "replied" /\ SetCall(tab, call)
      /\ UNCHANGED <<rows, told, invoked, prepared>>
  BY DEF Confirm, InCall
<1>2. CallHere(tab)
  BY <1>1, HereIsACall
<1>3. /\ call \in Call
      /\ call.invocation = calls[tab].invocation /\ call.method = calls[tab].method
      /\ call.step = "confirmed" /\ call.reply = calls[tab].reply /\ ~call.heard
  BY <1>2 DEF CallHere, Call, Checked
<1> HIDE DEF call
<1>4. CallKnows(call, call.invocation \in invoked) /\ Hears(tab, call)
  BY <1>1, <1>2, <1>3 DEF CallHere, CallKnows, Hears
<1> QED
  BY <1>1, <1>3, <1>4, CallOnlyKeeps

LEMMA InvokeKeeps ==
    ASSUME Inv, NEW tab \in Tab, Invoke(tab)
    PROVE  Inv'
<1> DEFINE i == calls[tab].invocation
           call == Checked(tab, "invoked")
<1>1. /\ calls[tab] # None /\ calls[tab].step = "hook" /\ SetCall(tab, call)
      /\ UNCHANGED <<rows, told, prepared>>
      /\ invoked \subseteq invoked' /\ invoked' \subseteq invoked \cup {i}
  BY DEF Invoke, InCall
<1>2. CallHere(tab)
  BY <1>1, HereIsACall
<1>3. /\ call \in Call /\ call.invocation = i /\ call.method = calls[tab].method
      /\ call.step = "invoked" /\ ~call.heard
  BY <1>2 DEF CallHere, Call, Checked
<1> HIDE DEF call
<1>4. CallLeaves(i, call)
  BY <1>1, <1>2, <1>3 DEF CallHere, CallLeaves, CallKnows, CallKnowsRow
<1>5. CallTells(i)
  BY <1>1, <1>2, TellsNothing DEF CallHere
<1>6. Hears(tab, call) /\ OnlyRow(i)
  BY <1>1, <1>2, <1>3 DEF CallHere, Hears, OnlyRow
<1> QED
  BY <1>1, <1>3, <1>4, <1>5, <1>6, SameRows, CallKeeps

LEMMA RefuseKeeps ==
    ASSUME Inv, NEW tab \in Tab, Refuse(tab)
    PROVE  Inv'
<1> DEFINE i == calls[tab].invocation
<1>1. /\ calls[tab] # None /\ calls[tab].step = "hook" /\ SetCall(tab, None)
      /\ UNCHANGED <<prepared, invoked>>
      /\ told' = told \cup {<<i, NotInvoked>>}
      /\ TryUpdate(i, "not-invoked")
  BY DEF Refuse, InCall, Tell
<1>2. CallHere(tab) /\ i \in Invocation /\ i \notin invoked
  BY <1>1, HereIsACall DEF CallHere, CallKnows
<1>3. /\ RowsGrow /\ DeliveriesKept
      /\ \A j \in Invocation : rows'[j] # None =>
           /\ rows[j] # None
           /\ rows'[j].state = rows[j].state \/ (j = i /\ rows'[j].state = "not-invoked")
           /\ rows'[j].final = rows[j].final /\ rows'[j].hash = rows[j].hash
           /\ rows'[j].notSubmitted = rows[j].notSubmitted
  BY <1>1, <1>2, TryUpdateGrows
<1>4. OnlyRow(i)
  BY <1>1, <1>2, <1>3 DEF OnlyRow, TryUpdate, Inv, TypeOK
<1>5. rows'[i] # None =>
        /\ ~Evident(rows'[i])
        /\ rows'[i].state # "unknown"
  BY <1>1, <1>2, <1>3 DEF CallHere, CallKnowsRow, Evident
<1>6. CallLeaves(i, None)
  BY <1>1, <1>2, <1>5 DEF CallLeaves
<1>7. CallTells(i)
  <2>1. SUFFICES ASSUME NEW t \in told'
                 PROVE  /\ t \in told \/ t \in {i} \X Outcome
                        /\ t[1] = i => t[2] = NotInvoked
    BY <1>1, <1>2, <1>5, <2>1 DEF CallTells
  <2>2. CASE t = <<i, NotInvoked>>
    BY <2>2 DEF Outcome
  <2>3. CASE t \in told
    BY <1>2, <2>3 DEF Inv, CallInv, InvokedInv
  <2> QED
    BY <1>1, <2>2, <2>3
<1> QED
  BY <1>1, <1>3, <1>4, <1>6, <1>7, CallKeeps

\* A provider throws: the row is recorded as unknown, or stays.
LEMMA UnknownKeeps ==
    ASSUME Inv, NEW tab \in Tab, calls[tab] # None,
           TryUpdate(calls[tab].invocation, "unknown"),
           UNCHANGED <<prepared, invoked, told>>,
           calls[tab].step # "hook",
           NEW call \in Call \cup {None}, SetCall(tab, call),
           call # None =>
             /\ call.invocation = calls[tab].invocation
             /\ call.method = calls[tab].method
             /\ call.step = "failing"
             /\ CallKnows(call, call.invocation \in invoked)
             /\ Hears(tab, call)
    PROVE  Inv'
<1> DEFINE i == calls[tab].invocation
<1>1. CallHere(tab) /\ i \in Invocation
  BY HereIsACall DEF CallHere
<1>2. /\ RowsGrow /\ DeliveriesKept
      /\ \A j \in Invocation : rows'[j] # None =>
           /\ rows[j] # None
           /\ rows'[j].state = rows[j].state \/ (j = i /\ rows'[j].state = "unknown")
           /\ rows'[j].final = rows[j].final /\ rows'[j].hash = rows[j].hash
           /\ rows'[j].notSubmitted = rows[j].notSubmitted
  BY <1>1, TryUpdateGrows
<1>3. OnlyRow(i)
  BY <1>1, <1>2 DEF OnlyRow, TryUpdate, Inv, TypeOK
<1>4. rows'[i] # None => /\ rows'[i].method = calls[tab].method
                         /\ rows'[i].state # "not-invoked"
                         /\ Evident(rows'[i]) => i \in invoked
  BY <1>1, <1>2 DEF CallHere, CallKnowsRow, RowsGrow, Grows, Evident
<1>5. CallLeaves(i, call)
  BY <1>1, <1>4 DEF CallLeaves, CallKnowsRow, CallHere
<1>6. CallTells(i)
  BY <1>1, TellsNothing DEF CallHere
<1> QED
  BY <1>2, <1>3, <1>5, <1>6, CallKeeps

LEMMA ThrowsKeeps ==
    ASSUME Inv, NEW tab \in Tab, Throws(tab)
    PROVE  Inv'
<1>1. /\ calls[tab] # None /\ calls[tab].step = "invoked"
      /\ TryUpdate(calls[tab].invocation, "unknown")
      /\ UNCHANGED <<prepared, invoked, told>>
  BY DEF Throws, InCall
<1>2. CASE SetCall(tab, None)
  BY <1>1, <1>2, UnknownKeeps
<1>3. ASSUME NEW tx \in Tx, calls[tab].invocation \in invoked,
             calls[tab].method = "submit",
             SetCall(tab, [calls[tab] EXCEPT !.step = "failing", !.reply = Approved(tx)])
      PROVE  Inv'
  <2> DEFINE call == [calls[tab] EXCEPT !.step = "failing", !.reply = Approved(tx)]
  <2>1. CallHere(tab)
    BY <1>1, HereIsACall
  <2>2. Approved(tx) \in Final
    BY <1>3 DEF Final, FinalsOf, Results
  <2>3. /\ call \in Call
        /\ call.invocation = calls[tab].invocation /\ call.method = calls[tab].method
        /\ call.step = "failing" /\ call.reply = Approved(tx)
        /\ call.seen = calls[tab].seen /\ call.heard = calls[tab].heard
        /\ call.fresh = calls[tab].fresh
    BY <2>1, <2>2 DEF CallHere, Call
  <2>4. SetCall(tab, call)
    BY <1>3
  <2> HIDE DEF call
  <2>5. CallKnows(call, call.invocation \in invoked) /\ Hears(tab, call)
    BY <1>3, <2>1, <2>3 DEF CallHere, CallKnows, Hears
  <2> QED
    BY <1>1, <2>3, <2>4, <2>5, UnknownKeeps
<1> QED
  BY <1>2, <1>3 DEF Throws

LEMMA DiscardKeeps ==
    ASSUME Inv, NEW tab \in Tab, Discard(tab)
    PROVE  Inv'
BY UnknownKeeps DEF Discard, InCall

LEMMA ReturnKeeps ==
    ASSUME Inv, NEW tab \in Tab, Return(tab)
    PROVE  Inv'
<1> DEFINE i == calls[tab].invocation
           reply == calls[tab].reply
<1>1. /\ calls[tab] # None /\ calls[tab].step = "saved" /\ SetCall(tab, None)
      /\ UNCHANGED <<rows, prepared, invoked>> /\ Tell(i, reply)
  BY DEF Return, InCall
<1>2. CallHere(tab) /\ i \in invoked /\ Claimed(i, reply)
  BY <1>1, HereIsACall DEF CallHere, CallKnows
<1>3. reply \in Outcome /\ reply # NotInvoked
  BY <1>1, <1>2, FinalForms DEF CallHere, CallKnows, Call
<1>4. CallTells(i)
  BY <1>1, <1>2, <1>3, TellsReply DEF CallHere, Grounded
<1>5. CallLeaves(i, None) /\ OnlyRow(i)
  BY <1>1, <1>2 DEF CallHere, CallLeaves, CallKnowsRow, OnlyRow
<1> QED
  BY <1>1, <1>4, <1>5, SameRows, CallKeeps

LEMMA SaveThrownKeeps ==
    ASSUME Inv, NEW tab \in Tab, SaveThrown(tab)
    PROVE  Inv'
<1> DEFINE i == calls[tab].invocation
<1>1. /\ calls[tab] # None /\ calls[tab].step = "failing" /\ SetCall(tab, None)
      /\ UNCHANGED <<prepared, invoked, told>>
      /\ SaveHash(i, calls[tab].reply.result) \/ UNCHANGED rows
  BY DEF SaveThrown, InCall
<1>2. CallHere(tab) /\ i \in Invocation /\ i \in invoked
  BY <1>1, HereIsACall DEF CallHere, CallKnows
<1>3. CASE UNCHANGED rows
  BY <1>1, <1>3, CallOnlyKeeps
<1>4. CASE SaveHash(i, calls[tab].reply.result)
  <2>1. calls[tab].reply.result \in Tx
    <3>1. PICK tx \in Tx : calls[tab].reply = Approved(tx)
      BY <1>1, <1>2 DEF CallHere, CallKnows
    <3> QED
      BY <3>1 DEF Approved
  <2>2. RowsGrow /\ StatesKept /\ DeliveriesKept
    BY <1>2, <1>4, <2>1, SaveHashGrows
  <2>3. OnlyRow(i)
    BY <1>2, <1>4, <2>2 DEF OnlyRow, StatesKept, SaveHash, Inv, TypeOK
  <2>4. CallLeaves(i, None)
    <3>1. rows'[i] # None => rows'[i].state # "not-invoked"
      BY <1>2, <2>2 DEF StatesKept, CallHere, CallKnowsRow
    <3> QED
      BY <1>1, <1>2, <3>1 DEF CallLeaves
  <2>5. CallTells(i)
    BY <1>1, <1>2, TellsNothing DEF CallHere
  <2> QED
    BY <1>1, <2>2, <2>3, <2>4, <2>5, CallKeeps
<1> QED
  BY <1>1, <1>3, <1>4

LEMMA SaveReplyKeeps ==
    ASSUME Inv, NEW tab \in Tab, SaveReply(tab)
    PROVE  Inv'
<1> DEFINE i == calls[tab].invocation
           reply == calls[tab].reply
           call == [calls[tab] EXCEPT !.step = "saved"]
<1>1. /\ calls[tab] # None /\ calls[tab].step \in {"replied", "confirmed"}
      /\ UNCHANGED <<prepared, invoked>>
      /\ SaveFinal(i, reply)
      /\ \/ SetCall(tab, call) /\ UNCHANGED told
         \/ SetCall(tab, None) /\ Tell(i, reply)
  BY DEF SaveReply, InCall
<1>2. CallHere(tab) /\ i \in Invocation /\ i \in invoked
  BY <1>1, HereIsACall DEF CallHere, CallKnows
<1>3. /\ reply \in FinalsOf(calls[tab].method) /\ calls[tab].method \in Method
      /\ rows[i] # None => rows[i].method = calls[tab].method
  BY <1>1, <1>2 DEF CallHere, CallKnows, CallKnowsRow, Call
<1>4. reply \in Outcome /\ reply # NotInvoked
  BY <1>3, FinalForms
<1>5. /\ RowsGrow /\ StatesKept /\ DeliveriesKept
      /\ rows[i] # None /\ rows'[i] # None /\ rows'[i].final = reply
  BY <1>1, <1>2, <1>3, SaveFinalGrows
<1>6. OnlyRow(i)
  BY <1>1, <1>2, <1>5 DEF OnlyRow, StatesKept, SaveFinal, Inv, TypeOK
<1>7. Grounded(i, reply)
  BY <1>5 DEF Grounded, Holds
<1>8. CASE SetCall(tab, None) /\ Tell(i, reply)
  <2>1. CallTells(i)
    BY <1>1, <1>2, <1>4, <1>7, <1>8, TellsReply DEF CallHere
  <2>2. CallLeaves(i, None)
    BY <1>1, <1>2, <1>5 DEF CallLeaves, StatesKept, CallHere, CallKnowsRow
  <2> QED
    BY <1>1, <1>5, <1>6, <1>8, <2>1, <2>2, CallKeeps
<1>9. CASE SetCall(tab, call) /\ UNCHANGED told
  <2>1. /\ call \in Call /\ call.invocation = i /\ call.method = calls[tab].method
        /\ call.step = "saved" /\ call.reply = reply
        /\ call.seen = calls[tab].seen /\ call.heard = calls[tab].heard
        /\ call.fresh = calls[tab].fresh
    BY <1>2 DEF CallHere, Call
  <2> HIDE DEF call
  <2>2. CallTells(i)
    BY <1>1, <1>2, <1>9, TellsNothing DEF CallHere
  <2>3. CallKnows(call, i \in invoked')
    BY <1>1, <1>2, <1>3, <2>1 DEF CallKnows
  <2>4. CallKnowsRow(call, rows'[i])
    BY <1>2, <1>5, <2>1 DEF CallHere, CallKnowsRow, StatesKept, RowsGrow, Grows
  <2>5. <<i, NotInvoked>> \notin told'
    BY <1>2, <1>9 DEF CallHere
  <2>6. CallLeaves(i, call)
    BY <1>1, <1>2, <1>7, <2>1, <2>3, <2>4, <2>5 DEF CallLeaves, CallKnowsRow
  <2>7. Hears(tab, call)
    BY <1>2, <2>1 DEF CallHere, Hears
  <2> QED
    BY <1>1, <1>5, <1>6, <1>9, <2>1, <2>2, <2>6, <2>7, CallKeeps
<1> QED
  BY <1>1, <1>8, <1>9

LEMMA PrepareKeeps ==
    ASSUME Inv, NEW tab \in Tab, NEW i \in Invocation, NEW method \in Method,
           NEW scope \in Scope, NEW required \in BOOLEAN,
           Prepare(tab, i, method, scope, required)
    PROVE  Inv'
<1> DEFINE row == [ scope |-> scope, method |-> method, required |-> required,
                    state |-> "prepared", final |-> None, hash |-> None,
                    notSubmitted |-> FALSE, delivery |-> "active" ]
           call == [ step |-> "hook", invocation |-> i, scope |-> scope,
                     method |-> method, seen |-> None, fresh |-> TRUE,
                     heard |-> FALSE, reply |-> None ]
<1>1. /\ calls[tab] = None /\ i \notin prepared /\ prepared' = prepared \cup {i}
      /\ rows' = [rows EXCEPT ![i] = row]
      /\ calls' = [calls EXCEPT ![tab] = call]
      /\ UNCHANGED <<invoked, told, live, client, recovery, acked>>
  BY DEF Prepare, SetCall, recoveryVars
<1>2. row \in Row /\ call \in Call
  BY DEF Row, Call
<1>3. /\ row.state = "prepared" /\ row.method = method /\ row.final = None
      /\ row.delivery = "active" /\ ~Evident(row) /\ RowAgrees(row)
  BY DEF Evident, RowAgrees
<1>4. /\ call.step = "hook" /\ call.invocation = i /\ call.method = method
      /\ ~call.heard
  OBVIOUS
<1> HIDE DEF row, call
<1>5. /\ rows[i] = None /\ i \notin invoked /\ i \notin acked
      /\ \A t \in told : t[1] # i /\ t[1] \in Invocation
      /\ \A other \in Tab : calls[other] # None => calls[other].invocation # i
  BY <1>1 DEF Inv, TypeOK, CallInv, IdsAreKnown
<1>6. /\ rows' \in [Invocation -> Row \cup {None}]
      /\ calls' \in [Tab -> Call \cup {None}]
      /\ rows'[i] = row /\ calls'[tab] = call
      /\ \A j \in Invocation \ {i} : rows'[j] = rows[j]
      /\ \A other \in Tab \ {tab} : calls'[other] = calls[other]
  BY <1>1, <1>2 DEF Inv, TypeOK
<1>7. RowsGrow /\ DeliveriesKept
  <2>1. ASSUME NEW j \in Invocation, j # i, rows'[j] # None
        PROVE  /\ rows'[j].final \in FinalsOf(rows'[j].method) \cup {None}
               /\ RowAgrees(rows'[j])
               /\ rows[j] # None /\ Grows(rows[j], rows'[j])
               /\ rows'[j].delivery = rows[j].delivery
    BY <1>6, <2>1, GrowsReflexive DEF Inv, TypeOK, ClaimInv, RowsAgree
  <2>2. IsNew(rows'[i]) /\ RowAgrees(rows'[i]) /\ rows'[i].final = None
    BY <1>3, <1>6 DEF IsNew
  <2> QED
    BY <1>1, <1>5, <1>6, <2>1, <2>2 DEF RowsGrow, DeliveriesKept
<1>8. TypeOK'
  BY <1>1, <1>6, <1>7 DEF Inv, TypeOK, RowsGrow
<1>9. IdsAreKnown'
  BY <1>1, <1>4, <1>6 DEF Inv, CallInv, IdsAreKnown
<1>10. OneCallEach'
  BY <1>4, <1>5, <1>6 DEF Inv, CallInv, OneCallEach
<1>11. CallsKnow'
  <2>1. SUFFICES ASSUME NEW other \in Tab, calls'[other] # None,
                        NEW j, j = calls'[other].invocation
                 PROVE  /\ CallKnows(calls'[other], j \in invoked')
                        /\ rows'[j] # None => CallKnowsRow(calls'[other], rows'[j])
                        /\ <<j, NotInvoked>> \notin told'
    BY DEF CallsKnow
  <2>2. CASE other = tab
    BY <1>1, <1>3, <1>4, <1>5, <1>6, <2>1, <2>2 DEF CallKnows, CallKnowsRow
  <2>3. CASE other # tab
    <3>1. calls'[other] = calls[other] /\ j # i /\ j \in Invocation
      BY <1>5, <1>6, <2>1, <2>3 DEF Inv, TypeOK, Call
    <3>2. rows'[j] = rows[j]
      BY <1>6, <3>1
    <3> QED
      BY <1>1, <2>1, <3>1, <3>2 DEF Inv, CallInv, CallsKnow
  <2> QED
    BY <2>2, <2>3
<1>12. InvokedInv'
  <2>1. \A j \in Invocation : rows'[j] # None =>
          /\ Evident(rows'[j]) => j \in invoked'
          /\ rows'[j].state = "not-invoked" => j \notin invoked'
    BY <1>1, <1>3, <1>5, <1>6 DEF Inv, CallInv, InvokedInv
  <2>2. \A t \in told' : t \in told /\ rows'[t[1]] = rows[t[1]]
    BY <1>1, <1>5, <1>6
  <2> QED
    BY <1>1, <2>1, <2>2 DEF Inv, CallInv, InvokedInv
<1>13. ClaimInv'
  <2>1. ASSUME NEW j \in Invocation, NEW outcome \in Outcome, Claimed(j, outcome)'
        PROVE  Claimed(j, outcome)
    <3>1. ASSUME NEW other \in Tab, InCall(other, "saved")'
          PROVE  calls'[other] = calls[other]
      BY <1>4, <1>6, <3>1 DEF InCall
    <3> QED
      BY <1>1, <2>1, <3>1 DEF Claimed, Read, InCall
  <2> QED
    BY <1>7, <2>1, ClaimsKeep
<1>14. DebtInv'
  BY <1>1, <1>7, DebtFrame
<1>15. HeardIsTrue'
  BY <1>1, <1>4, <1>6 DEF Inv, HeardIsTrue, Hears
<1> QED
  BY <1>8, <1>9, <1>10, <1>11, <1>12, <1>13, <1>14, <1>15 DEF Inv, CallInv

------------------------------------------------------------------------------
(* The steps of the wallet and of the tabs                                 *)

\* Calls and recoveries end or stay, and a call may lose its freshness.
LEMMA ScopeKeeps ==
    ASSUME Inv, UNCHANGED <<rows, prepared, invoked, acked, told>>,
           live' \in Scope, client' \in [Tab -> Client],
           recovery' \in [Tab -> Recovery \cup {None}],
           \A tab \in Tab : recovery'[tab] \in {None, recovery[tab]},
           calls' \in [Tab -> Call \cup {None}],
           \A tab \in Tab : calls'[tab] # None =>
             /\ calls[tab] # None
             /\ calls'[tab].step = calls[tab].step
             /\ calls'[tab].invocation = calls[tab].invocation
             /\ calls'[tab].method = calls[tab].method
             /\ calls'[tab].reply = calls[tab].reply,
           HeardIsTrue'
    PROVE  Inv'
<1>1. TypeOK'
  BY DEF Inv, TypeOK
<1>2. IdsAreKnown'
  BY DEF Inv, CallInv, IdsAreKnown
<1>3. OneCallEach'
  BY DEF Inv, CallInv, OneCallEach
<1>4. CallsKnow'
  BY DEF Inv, CallInv, CallsKnow, CallKnows, CallKnowsRow
<1>5. InvokedInv'
  BY DEF Inv, CallInv, InvokedInv
<1>6. RowsGrow /\ DeliveriesKept
  BY SameRows
<1>7. ClaimInv'
  <2>1. \A i \in Invocation, outcome \in Outcome :
          Claimed(i, outcome)' => Claimed(i, outcome)
    BY DEF Claimed, Read, InCall
  <2> QED
    BY <1>6, <2>1, ClaimsKeep
<1>8. DebtInv'
  BY <1>6, DebtFrame
<1> QED
  BY <1>1, <1>2, <1>3, <1>4, <1>5, <1>7, <1>8 DEF Inv, CallInv

LEMMA BumpedCalls ==
    ASSUME Inv, NEW tabs, Bumped(tabs)
    PROVE  /\ calls' \in [Tab -> Call \cup {None}]
           /\ \A tab \in Tab : calls'[tab] # None =>
                /\ calls[tab] # None
                /\ calls'[tab].step = calls[tab].step
                /\ calls'[tab].invocation = calls[tab].invocation
                /\ calls'[tab].method = calls[tab].method
                /\ calls'[tab].reply = calls[tab].reply
                /\ calls'[tab].heard = calls[tab].heard
                /\ calls'[tab].seen = calls[tab].seen
                /\ calls'[tab].fresh => calls[tab].fresh
                /\ calls'[tab].fresh /\ tab \in tabs =>
                     tab \notin Bound /\ calls[tab].seen = None
           /\ \A tab \in Tab : calls[tab] # None => calls'[tab] # None
<1>1. ASSUME NEW tab \in Tab
      PROVE  /\ calls'[tab] \in Call \cup {None}
             /\ calls'[tab] # None =>
                  /\ calls[tab] # None
                  /\ calls'[tab].step = calls[tab].step
                  /\ calls'[tab].invocation = calls[tab].invocation
                  /\ calls'[tab].method = calls[tab].method
                  /\ calls'[tab].reply = calls[tab].reply
                  /\ calls'[tab].heard = calls[tab].heard
                  /\ calls'[tab].seen = calls[tab].seen
                  /\ calls'[tab].fresh => calls[tab].fresh
                  /\ calls'[tab].fresh /\ tab \in tabs =>
                       tab \notin Bound /\ calls[tab].seen = None
             /\ calls[tab] # None => calls'[tab] # None
  <2>1. calls[tab] \in Call \cup {None}
    BY DEF Inv, TypeOK
  <2>2. CASE tab \in tabs /\ calls[tab] # None /\ (tab \in Bound \/ calls[tab].seen # None)
    <3> DEFINE call == [calls[tab] EXCEPT !.fresh = FALSE]
    <3>1. calls'[tab] = call
      BY <2>2 DEF Bumped
    <3>2. call \in Call /\ call # None
      BY <2>1, <2>2, Absent DEF Call, NoneIsNone
    <3> QED
      BY <2>1, <2>2, <3>1, <3>2 DEF Call
  <2>3. CASE ~(tab \in tabs /\ calls[tab] # None /\ (tab \in Bound \/ calls[tab].seen # None))
    <3>1. calls'[tab] = calls[tab]
      BY <2>3 DEF Bumped
    <3> QED
      BY <2>1, <2>3, <3>1
  <2> QED
    BY <2>2, <2>3
<1>2. calls' \in [Tab -> Call \cup {None}]
  <2>1. \A tab \in Tab : calls'[tab] \in Call \cup {None}
    BY <1>1
  <2>2. calls' = [tab \in Tab |-> calls'[tab]]
    BY DEF Bumped
  <2> QED
    BY <2>1, <2>2
<1> QED
  BY <1>1, <1>2

\* A client that listens hears of every change.
LEMMA ChangeScopeKeeps ==
    ASSUME Inv, NEW scope \in Scope, NEW what \in SUBSET Listened, ChangeScope(scope, what)
    PROVE  Inv'
<1> DEFINE tabs == {tab \in Tab : client[tab].listening \cap what # {}}
<1>1. /\ Bumped(tabs) /\ live' = scope
      /\ UNCHANGED <<rows, client, prepared, invoked, recovery, acked, told>>
      /\ scope.account # live.account => "account" \in what
  BY DEF ChangeScope, Listened, recoveryVars
<1>2. HeardIsTrue'
  <2>1. SUFFICES ASSUME NEW tab \in Tab, calls'[tab] # None, calls'[tab].heard,
                        calls'[tab].fresh, calls'[tab].seen # None, ~client[tab].disposed
                 PROVE  client[tab].listening = Listened /\ scope.account = calls'[tab].seen
    BY <1>1 DEF Inv, HeardIsTrue, Hears
  <2>2. /\ calls[tab] # None /\ calls[tab].heard /\ calls'[tab].seen = calls[tab].seen
        /\ tab \notin tabs /\ calls[tab].fresh
    BY <1>1, <2>1, BumpedCalls
  <2>3. client[tab].listening = Listened /\ live.account = calls[tab].seen
    BY <2>1, <2>2 DEF Inv, HeardIsTrue, Hears
  <2>4. scope.account = live.account
    BY <1>1, <2>2, <2>3 DEF Listened
  <2> QED
    BY <2>2, <2>3, <2>4
<1>3. /\ client' \in [Tab -> Client]
      /\ recovery' \in [Tab -> Recovery \cup {None}]
      /\ \A tab \in Tab : recovery'[tab] \in {None, recovery[tab]}
  BY <1>1 DEF Inv, TypeOK
<1> QED
  BY <1>1, <1>2, <1>3, BumpedCalls, ScopeKeeps

\* What one tab does about the changes that its client hears of.
LEMMA ClientTypes ==
    ASSUME Inv, NEW tab \in Tab, NEW next \in Client, client' = [client EXCEPT ![tab] = next]
    PROVE  /\ client' \in [Tab -> Client] /\ client'[tab] = next
           /\ \A other \in Tab \ {tab} : client'[other] = client[other]
BY DEF Inv, TypeOK

LEMMA DisconnectKeeps ==
    ASSUME Inv, NEW tab \in Tab, Disconnect(tab)
    PROVE  Inv'
<1> DEFINE next == [client[tab] EXCEPT !.listening = {}]
<1>1. /\ Bumped({tab}) /\ tab \notin Bound
      /\ UNCHANGED <<rows, live, prepared, invoked, recovery, acked, told>>
      /\ client' = [client EXCEPT ![tab] = next]
  BY DEF Disconnect, recoveryVars
<1>2. next \in Client /\ next.listening # Listened
  BY DEF Inv, TypeOK, Client, Listened
<1> HIDE DEF next
<1>3. /\ client' \in [Tab -> Client] /\ client'[tab].listening # Listened
      /\ \A other \in Tab \ {tab} : client'[other] = client[other]
  BY <1>1, <1>2, ClientTypes
<1>4. HeardIsTrue'
  <2>1. ASSUME NEW other \in Tab, calls'[other] # None
        PROVE  Hears(other, calls[other])'
    <3>1. /\ calls[other] # None /\ calls'[other].heard = calls[other].heard
          /\ calls'[other].seen = calls[other].seen
          /\ calls'[other].fresh => /\ calls[other].fresh
                                    /\ other # tab \/ calls[other].seen = None
      BY <1>1, <2>1, BumpedCalls
    <3> QED
      BY <1>1, <1>3, <3>1 DEF Inv, HeardIsTrue, Hears
  <2> QED
    BY <1>3, <2>1 DEF Inv, HeardIsTrue
<1>5. /\ live' \in Scope /\ recovery' \in [Tab -> Recovery \cup {None}]
      /\ \A other \in Tab : recovery'[other] \in {None, recovery[other]}
  BY <1>1 DEF Inv, TypeOK
<1> QED
  BY <1>1, <1>3, <1>4, <1>5, BumpedCalls, ScopeKeeps

LEMMA DisposeKeeps ==
    ASSUME Inv, NEW tab \in Tab, Dispose(tab)
    PROVE  Inv'
<1> DEFINE next == [client[tab] EXCEPT !.listening = {}, !.disposed = TRUE]
<1>1. /\ UNCHANGED <<rows, live, prepared, calls, invoked, recovery, acked, told>>
      /\ client' = [client EXCEPT ![tab] = next]
  BY DEF Dispose, recoveryVars, callVars
<1>2. next \in Client /\ next.listening # Listened /\ next.disposed
  BY DEF Inv, TypeOK, Client, Listened
<1> HIDE DEF next
<1>3. /\ client' \in [Tab -> Client]
      /\ client'[tab].listening # Listened /\ client'[tab].disposed
      /\ \A other \in Tab \ {tab} : client'[other] = client[other]
  BY <1>1, <1>2, ClientTypes
<1>4. HeardIsTrue'
  BY <1>1, <1>3 DEF Inv, HeardIsTrue, Hears
<1>5. /\ live' \in Scope /\ calls' \in [Tab -> Call \cup {None}]
      /\ recovery' \in [Tab -> Recovery \cup {None}]
  BY <1>1 DEF Inv, TypeOK
<1> QED
  BY <1>1, <1>3, <1>4, <1>5, ScopeKeeps

LEMMA SubscribeKeeps ==
    ASSUME Inv, NEW tab \in Tab, Subscribe(tab)
    PROVE  Inv'
<1> DEFINE both == "account" \in client[tab].listening
           next == [client[tab] EXCEPT !.listening = IF both THEN Listened ELSE {"account"},
                                       !.subscribed = @ \/ both]
<1>1. /\ client[tab].listening # Listened /\ ~client[tab].disposed
      /\ UNCHANGED <<rows, live, prepared, calls, invoked, recovery, acked, told>>
      /\ client' = [client EXCEPT ![tab] = next]
  BY DEF Subscribe, recoveryVars, callVars
<1>2. next \in Client /\ next.disposed = client[tab].disposed
  BY DEF Inv, TypeOK, Client, Listened
<1> HIDE DEF next
<1>3. /\ client' \in [Tab -> Client] /\ ~client'[tab].disposed
      /\ \A other \in Tab \ {tab} : client'[other] = client[other]
  BY <1>1, <1>2, ClientTypes
<1>4. HeardIsTrue'
  BY <1>1, <1>3 DEF Inv, HeardIsTrue, Hears
<1>5. /\ live' \in Scope /\ calls' \in [Tab -> Call \cup {None}]
      /\ recovery' \in [Tab -> Recovery \cup {None}]
  BY <1>1 DEF Inv, TypeOK
<1> QED
  BY <1>1, <1>3, <1>4, <1>5, ScopeKeeps

LEMMA NewClients == \A tab \in Tab : NewClient(tab) \in Client /\ ~NewClient(tab).disposed
BY DEF NewClient, Client, Listened

LEMMA LeaveTabKeeps ==
    ASSUME Inv, NEW tab \in Tab, LeaveTab(tab)
    PROVE  Inv'
<1>1. /\ UNCHANGED <<rows, live, prepared, invoked, acked, told>>
      /\ calls' = [calls EXCEPT ![tab] = None]
      /\ recovery' = [recovery EXCEPT ![tab] = None]
      /\ client' = [client EXCEPT ![tab] = NewClient(tab)]
  BY DEF LeaveTab
<1>2. /\ client' \in [Tab -> Client] /\ ~client'[tab].disposed
      /\ \A other \in Tab \ {tab} : client'[other] = client[other]
  BY <1>1, NewClients, ClientTypes
<1>3. /\ calls' \in [Tab -> Call \cup {None}] /\ calls'[tab] = None
      /\ recovery' \in [Tab -> Recovery \cup {None}] /\ recovery'[tab] = None
      /\ live' \in Scope
      /\ \A other \in Tab \ {tab} :
           calls'[other] = calls[other] /\ recovery'[other] = recovery[other]
  BY <1>1 DEF Inv, TypeOK
<1>4. HeardIsTrue'
  BY <1>1, <1>2, <1>3 DEF Inv, HeardIsTrue, Hears
<1> QED
  BY <1>1, <1>2, <1>3, <1>4, ScopeKeeps

------------------------------------------------------------------------------
(* The theorems                                                            *)

LEMMA InitInv == Init => Inv
<1> SUFFICES ASSUME Init PROVE Inv
  OBVIOUS
<1>1. TypeOK
  BY NewClients DEF Init, TypeOK
<1>2. CallInv
  BY DEF Init, CallInv, IdsAreKnown, OneCallEach, CallsKnow, InvokedInv
<1>3. ClaimInv
  BY DEF Init, ClaimInv, RowsAgree, ClaimsAreHeld, ClaimsAgree, Claimed, Read, InCall
<1>4. DebtInv /\ HeardIsTrue
  BY NewClients DEF Init, DebtInv, RecoveriesKnow, AcknowledgedInOrder, HeardIsTrue
<1> QED
  BY <1>1, <1>2, <1>3, <1>4 DEF Inv

LEMMA CallStepKeeps ==
    ASSUME Inv, NEW tab \in Tab, CallStep(tab)
    PROVE  Inv'
BY PrepareKeeps, SeeAccountKeeps, InvokeKeeps, RefuseKeeps, ThrowsKeeps,
   SaveThrownKeeps, RepliesKeeps, DiscardKeeps, ConfirmKeeps, SaveReplyKeeps,
   ReturnKeeps, WithholdKeeps DEF CallStep

LEMMA RecoveryOfKeeps ==
    ASSUME Inv, NEW tab \in Tab, RecoveryOf(tab)
    PROVE  Inv'
BY StartReadKeeps, StartAcknowledgeKeeps, AnswerNotSubmittedKeeps,
   AnswerUnresolvedKeeps, AnswerFinalKeeps, WalletAcknowledgesKeeps,
   SaveReconciledKeeps, AcceptKeeps, RecoveryFailsKeeps DEF RecoveryOf

LEMMA StutterKeeps ==
    ASSUME Inv, UNCHANGED vars
    PROVE  Inv'
<1>1. UNCHANGED <<rows, live, client, prepared, calls, invoked, recovery, acked, told>>
  BY DEF vars, callVars, recoveryVars
<1>2. HeardIsTrue'
  BY <1>1 DEF Inv, HeardIsTrue, Hears
<1> QED
  BY <1>1, <1>2, ScopeKeeps DEF Inv, TypeOK

LEMMA NextKeeps == Inv /\ [Next]_vars => Inv'
<1> SUFFICES ASSUME Inv, [Next]_vars PROVE Inv'
  OBVIOUS
<1> QED
  BY CallStepKeeps, RecoveryOfKeeps, SubscribeKeeps, DisconnectKeeps, DisposeKeeps,
     LeaveTabKeeps, ArchiveKeeps, PruneKeeps, ChangeScopeKeeps, StutterKeeps DEF Next

\* The inductive invariant: what the rows of durableRecovery.ts, the calls of
\* InferClient.ts and the operations of recovery.ts know of an invocation agrees.
THEOREM InvariantHolds == Spec => []Inv
BY InitInv, NextKeeps, PTL DEF Spec

\* Every row, call and recovery has the shape its type in durableRecovery.ts says,
\* and the final of a row is one of its method (updateInjectedInvocationEvidence).
THEOREM TypeCorrect == Spec => []TypeOK
<1>1. Inv => TypeOK
  BY DEF Inv
<1> QED
  BY <1>1, InvariantHolds, PTL

\* What the dapp is told, or finds recorded, not to have been invoked never
\* reached a wallet (notInvokedError, listRecoverableInvocations): a call that has
\* not passed the hook has not reached it, and no other call has its id.
THEOREM NeverInvoked == Spec => []NotInvokedIsTrue
<1>1. Inv => NotInvokedIsTrue
  <2>1. SUFFICES ASSUME Inv, NEW i \in invoked
                 PROVE  /\ <<i, NotInvoked>> \notin told
                        /\ rows[i] # None => rows[i].state # "not-invoked"
    BY DEF NotInvokedIsTrue
  <2>2. <<i, NotInvoked>> \notin told
    <3> DEFINE t == <<i, NotInvoked>>
    <3>1. t[1] = i /\ t[2] = NotInvoked
      OBVIOUS
    <3> QED
      BY <2>1, <3>1 DEF Inv, CallInv, InvokedInv
  <2> QED
    BY <2>1, <2>2 DEF Inv, TypeOK, CallInv, InvokedInv
<1> QED
  BY <1>1, InvariantHolds, PTL

\* No two outcomes of an invocation are told, and what was told stays on record,
\* however the wallet's answers to the calls, reads and acknowledgements of the
\* tabs are interleaved (updateInjectedInvocationEvidence, saveDurableTransactionHash).
THEOREM OneOutcome == Spec => []OutcomesAgree
<1>1. Inv => OutcomesAgree
  <2> SUFFICES ASSUME Inv PROVE OutcomesAgree
    OBVIOUS
  <2>1. \A i \in Invocation : rows[i] # None => RowAgrees(rows[i])
    BY DEF Inv, ClaimInv, RowsAgree
  <2>2. ASSUME NEW t \in told
        PROVE  /\ t[1] \in Invocation /\ t[2] \in Outcome /\ t = <<t[1], t[2]>>
               /\ t[2] # NotInvoked => Claimed(t[1], t[2])
    BY DEF Inv, TypeOK, Claimed
  <2>3. ASSUME NEW t \in told, NEW u \in told, t[1] = u[1]
        PROVE  t = u
    <3>1. CASE t[2] = NotInvoked \/ u[2] = NotInvoked
      <4>1. t[2] = NotInvoked /\ u[2] = NotInvoked
        BY <2>3, <3>1 DEF Inv, CallInv, InvokedInv
      <4> QED
        BY <2>2, <2>3, <4>1
    <3>2. CASE t[2] # NotInvoked /\ u[2] # NotInvoked
      <4>1. Claimed(t[1], t[2]) /\ Claimed(t[1], u[2])
        BY <2>2, <2>3, <3>2
      <4>2. t[2] = u[2]
        BY <2>2, <4>1 DEF Inv, ClaimInv, ClaimsAgree
      <4> QED
        BY <2>2, <2>3, <4>2
    <3> QED
      BY <3>1, <3>2
  <2>4. ASSUME NEW t \in told, rows[t[1]] # None
        PROVE  Retains(rows[t[1]], t[2])
    <3>1. CASE t[2] = NotInvoked
      BY <2>4, <3>1 DEF Retains, Inv, CallInv, InvokedInv
    <3>2. CASE t[2] # NotInvoked
      <4>1. Holds(rows[t[1]], t[2])
        BY <2>2, <2>4, <3>2 DEF Inv, ClaimInv, ClaimsAreHeld
      <4> QED
        BY <4>1 DEF Holds, Retains
    <3> QED
      BY <3>1, <3>2
  <2> QED
    BY <2>1, <2>3, <2>4 DEF OutcomesAgree
<1> QED
  BY <1>1, InvariantHolds, PTL

\* A wallet is only told to drop an outcome that is on record, and a row whose
\* wallet has to be told is only accepted after it was (acknowledgeNativeResult).
THEOREM WalletFirst == Spec => []AcknowledgedInOrder
<1>1. Inv => AcknowledgedInOrder
  BY DEF Inv, DebtInv
<1> QED
  BY <1>1, InvariantHolds, PTL

\* The check that a call passes at an answer of network().
LEMMA ConfirmedScope ==
    ASSUME Inv, NEW tab \in Tab, calls[tab] # None, calls[tab].heard, Confirmed(tab),
           client[tab].listening = Listened
    PROVE  live = calls[tab].scope
<1>1. /\ calls[tab].scope \in Scope /\ live \in Scope
      /\ calls[tab].scope.account # None
  BY Absent DEF Inv, TypeOK, Call, Scope, NoneIsNone
<1>2. live.account = calls[tab].scope.account
  BY <1>1 DEF Inv, HeardIsTrue, Hears, Confirmed
<1> QED
  BY <1>1, <1>2 DEF Confirmed, Scope

\* Only the last step of a call that checked the scope reaches a wallet or
\* returns a submission.
LEMMA OthersDoNeither ==
    ASSUME Inv, [Next]_vars, NEW tab \in Tab, calls[tab] # None,
           ~Invoke(tab), ~Return(tab)
    PROVE  ~Dispatches(tab)
<1>1. CASE \E other \in Tab : CallStep(other)
  <2>1. PICK other \in Tab : CallStep(other)
    BY <1>1
  <2>2. invoked' = invoked \/ (Invoke(other) /\ calls[other] # None
                               /\ invoked' \subseteq invoked \cup {calls[other].invocation})
    BY <2>1 DEF CallStep, Prepare, SeeAccount, Invoke, Refuse, Throws, SaveThrown,
                Replies, Discard, Confirm, SaveReply, Return, Withhold, InCall
  <2>3. calls[tab].invocation \notin invoked' \ invoked
    BY <2>2 DEF Inv, CallInv, OneCallEach
  <2>4. CASE other = tab
    BY <2>1, <2>3, <2>4 DEF CallStep, Prepare, SeeAccount, Invoke, Refuse, Throws,
                            SaveThrown, Replies, Discard, Confirm, SaveReply, Withhold,
                            InCall, Dispatches
  <2>5. CASE other # tab
    <3>1. PICK call : SetCall(other, call)
      BY <2>1, Zenon
         DEF CallStep, Prepare, SeeAccount, Invoke, Refuse, Throws, SaveThrown,
             Replies, Discard, Confirm, SaveReply, Return, Withhold
    <3>2. calls'[tab] = calls[tab]
      BY <2>5, <3>1 DEF SetCall, Inv, TypeOK
    <3> QED
      BY <2>3, <3>2 DEF Dispatches
  <2> QED
    BY <2>4, <2>5
<1>2. CASE \E other \in Tab : RecoveryOf(other)
  <2>1. UNCHANGED callVars
    BY <1>2, Zenon
       DEF RecoveryOf, StartRead, StartAcknowledge, AnswerNotSubmitted, AnswerUnresolved,
           AnswerFinal, WalletAcknowledges, SaveReconciled, Accept, RecoveryFails, Start,
           RecoveryStep, SetRecovery
  <2> QED
    BY <2>1 DEF callVars, Dispatches
<1>3. CASE \/ \E other \in Tab : Subscribe(other) \/ Disconnect(other)
                                  \/ Dispose(other) \/ LeaveTab(other)
           \/ \E i \in Invocation : Archive(i) \/ Prune(i)
           \/ \E scope \in Scope, what \in SUBSET Listened : ChangeScope(scope, what)
           \/ UNCHANGED vars
  <2>1. invoked' = invoked /\ told' = told
    BY <1>3 DEF Subscribe, Disconnect, Dispose, LeaveTab, Archive, Prune, ChangeScope,
                vars, callVars
  <2> QED
    BY <2>1 DEF Dispatches
<1> QED
  BY <1>1, <1>2, <1>3 DEF Next

\* A client that listens when account() answers, and at the end of the check,
\* neither reaches the wallet nor returns a submission outside the prepared scope,
\* although network() answers later and it may have been disconnected and
\* subscribed anew in between (assertLiveInjectedScope).
THEOREM ScopeIsLive == Spec => InvokedInScope
<1> DEFINE InScope(tab) ==
      Dispatches(tab) /\ calls[tab].heard /\ client[tab].listening = Listened
        => live = calls[tab].scope
<1>1. Inv /\ [Next]_vars => \A tab \in Tab : InScope(tab)
  BY ConfirmedScope, OthersDoNeither DEF Invoke, Return, Dispatches
<1>2. Inv /\ [Next]_vars => [\A tab \in Tab : InScope(tab)]_vars
  BY <1>1
<1> QED
  BY <1>2, InvariantHolds, PTL DEF Spec, InvokedInScope
==============================================================================
