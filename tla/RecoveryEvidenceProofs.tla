------------------------ MODULE RecoveryEvidenceProofs ------------------------
(* The properties of RecoveryEvidence, for every set of transactions and    *)
(* ledger versions and any number of snapshots.                             *)
EXTENDS RecoveryEvidence, TLAPS

------------------------------------------------------------------------------
(* Validated evidence and its merge.                                          *)

\* The merge of two validated snapshots would itself pass validation, so what
\* saveDurableExternalTransactionRecovery stores can be read back (it
\* revalidates the stored evidence before every later merge).
THEOREM MergeIsValid ==
    ASSUME NEW previous \in AcceptedEvidence \cup {None},
           NEW next \in AcceptedEvidence,
           Mergeable(previous, next)
    PROVE  Merge(previous, next) \in AcceptedEvidence
<1> USE EvidenceAssumption
<1>1. CASE previous = None
  BY <1>1 DEF Merge
<1>2. CASE previous # None
  <2>1. previous \in Evidence /\ ValidEvidence(previous)
    BY <1>2 DEF AcceptedEvidence
  <2>2. next \in Evidence /\ ValidEvidence(next) /\ next # None
    BY DEF AcceptedEvidence
  <2>3. CASE previous.status = "not-submitted" \/ next.status = "not-submitted"
    BY <1>2, <2>3 DEF Merge, AcceptedEvidence
  <2>4. CASE previous.status # "not-submitted" /\ next.status # "not-submitted"
    <3>1. CASE Identified(previous) /\ ~Identified(next)
      <4>1. Merge(previous, next) = StalePending(previous)
        BY <1>2, <2>4, <3>1 DEF Merge
      <4>2. StalePending(previous) \in Evidence
        BY <2>1 DEF StalePending, Evidence
      <4>3. ValidEvidence(StalePending(previous))
        BY <2>1, <2>4, <3>1, <4>2
           DEF StalePending, Evidence, ValidEvidence, Identified, Accepted,
               Committed, NotSubmitted
      <4> QED
        BY <4>1, <4>2, <4>3 DEF AcceptedEvidence
    <3>2. CASE ~(Identified(previous) /\ ~Identified(next))
      <4>1. Merge(previous, next) = KeepEstablished(previous, next)
        BY <1>2, <2>4, <3>2 DEF Merge
      <4>2. KeepEstablished(previous, next) \in Evidence
        <5> DEFINE acceptance == IF Accepted(previous) THEN "accepted"
                                 ELSE next.submissionAcceptance
                   status == IF Committed(previous) THEN previous.chainStatus
                             ELSE next.chainStatus
                   version == IF Committed(previous) THEN previous.chainVersion
                              ELSE next.chainVersion
        <5>1. acceptance \in {"absent", "unknown", "accepted"}
          BY <2>2 DEF Evidence
        <5>2. status \in {"absent", "unknown", "pending", "confirmed", "aborted"}
          BY <2>1, <2>2 DEF Evidence
        <5>3. version \in ChainVersion \cup {None}
          BY <2>1, <2>2 DEF Evidence
        <5>4. KeepEstablished(previous, next) =
                [next EXCEPT !.submissionAcceptance = acceptance,
                             !.chainStatus = status, !.chainVersion = version]
          BY DEF KeepEstablished
        <5> HIDE DEF acceptance, status, version
        <5> QED
          BY <2>2, <5>1, <5>2, <5>3, <5>4 DEF Evidence
      <4>3. ValidEvidence(KeepEstablished(previous, next))
        BY <2>1, <2>2, <2>4, <3>2, <4>2
           DEF KeepEstablished, Evidence, ValidEvidence, Identified, Accepted,
               Committed, NotSubmitted
      <4> QED
        BY <4>1, <4>2, <4>3 DEF AcceptedEvidence
    <3> QED
      BY <3>1, <3>2
  <2> QED
    BY <2>3, <2>4
<1> QED
  BY <1>1, <1>2

\* What a merge establishes, field by field: an identity, an acceptance and a
\* receipt are kept from either side and nothing else is claimed.
THEOREM MergeFields ==
    ASSUME NEW previous \in AcceptedEvidence, NEW next \in AcceptedEvidence,
           Mergeable(previous, next)
    PROVE  LET e == Merge(previous, next) IN
           /\ IsNotSubmitted(e) <=> IsNotSubmitted(previous) \/ IsNotSubmitted(next)
           /\ Identified(e) <=> Identified(previous) \/ Identified(next)
           /\ Identified(previous) => e.transactionHash = previous.transactionHash
           /\ Identified(next) => e.transactionHash = next.transactionHash
           /\ Accepted(e) <=> Accepted(previous) \/ Accepted(next)
           /\ Committed(e) <=> Committed(previous) \/ Committed(next)
           /\ Committed(previous) => SameReceipt(previous, e)
           /\ Committed(next) => SameReceipt(next, e)
<1> USE EvidenceAssumption
<1>1. /\ previous \in Evidence /\ ValidEvidence(previous) /\ previous # None
      /\ next \in Evidence /\ ValidEvidence(next) /\ next # None
  BY DEF AcceptedEvidence
<1>2. CASE previous.status = "not-submitted"
  BY <1>1, <1>2
     DEF Merge, Mergeable, IsNotSubmitted, ValidEvidence, NotSubmitted,
         Identified, Accepted, Committed
<1>3. CASE previous.status # "not-submitted" /\ next.status = "not-submitted"
  BY <1>1, <1>3
     DEF Merge, Mergeable, IsNotSubmitted, ValidEvidence, NotSubmitted,
         Identified, Accepted, Committed
<1>4. CASE /\ previous.status # "not-submitted" /\ next.status # "not-submitted"
           /\ Identified(previous) /\ ~Identified(next)
  <2>1. Merge(previous, next) = StalePending(previous)
    BY <1>1, <1>4 DEF Merge
  <2> QED
    BY <1>1, <1>4, <2>1
       DEF StalePending, Evidence, IsNotSubmitted, ValidEvidence, NotSubmitted,
           Identified, Accepted, Committed, SameReceipt
<1>5. CASE /\ previous.status # "not-submitted" /\ next.status # "not-submitted"
           /\ ~(Identified(previous) /\ ~Identified(next))
  <2>1. Merge(previous, next) = KeepEstablished(previous, next)
    BY <1>1, <1>5 DEF Merge
  <2> QED
    BY <1>1, <1>5, <2>1
       DEF KeepEstablished, Mergeable, Evidence, IsNotSubmitted, ValidEvidence,
           NotSubmitted, Identified, Accepted, Committed, SameReceipt
<1> QED
  BY <1>2, <1>3, <1>4, <1>5

------------------------------------------------------------------------------
(* The retained evidence.                                                     *)

\* The invariant that carries the four properties: a wallet that has not
\* broadcast has no transaction, and what it once truthfully said stays true.
Inv ==
    /\ TypeOK
    /\ execution.stage \in {"queued", "failed"} => execution.tx = None
    /\ \A e \in snapshots : MayState(e)
    /\ retained = None => delivered = {}
    /\ RetainedIsTrue
    /\ NothingErased

\* Later stages of the execution still justify every earlier true statement.
LEMMA TruthIsStable ==
    ASSUME Inv,
           FailBeforeBroadcast \/ Broadcast \/ NodeAccepts \/ Commit,
           NEW e \in AcceptedEvidence, MayState(e)
    PROVE  MayState(e)'
<1> USE EvidenceAssumption
<1>1. execution \in Execution /\ e \in Evidence
  BY DEF Inv, TypeOK, AcceptedEvidence
<1>2. CASE FailBeforeBroadcast
  BY <1>1, <1>2
     DEF Inv, FailBeforeBroadcast, MayState, Execution, Identified, Accepted, Committed
<1>3. CASE Broadcast
  BY <1>1, <1>3
     DEF Inv, Broadcast, MayState, Execution, Identified, Accepted, Committed
<1>4. CASE NodeAccepts
  BY <1>1, <1>4
     DEF NodeAccepts, MayState, Execution, Identified, Accepted, Committed
<1>5. CASE Commit
  BY <1>1, <1>5
     DEF Commit, MayState, Execution, Identified, Accepted, Committed
<1> QED
  BY <1>2, <1>3, <1>4, <1>5

\* A wallet step changes the execution and nothing else.
LEMMA WalletStep ==
    ASSUME Inv, FailBeforeBroadcast \/ Broadcast \/ NodeAccepts \/ Commit
    PROVE  Inv'
<1> USE EvidenceAssumption
<1>1. UNCHANGED <<snapshots, delivered, retained>>
  BY DEF FailBeforeBroadcast, Broadcast, NodeAccepts, Commit
<1>2. execution' \in Execution
      /\ (execution'.stage \in {"queued", "failed"} => execution'.tx = None)
  BY DEF Inv, TypeOK, Execution, Stage, FailBeforeBroadcast, Broadcast,
         NodeAccepts, Commit
<1>3. TypeOK'
  BY <1>1, <1>2 DEF Inv, TypeOK
<1>4. \A e \in AcceptedEvidence : MayState(e) => MayState(e)'
  BY TruthIsStable
<1>5. (\A e \in snapshots : MayState(e))'
  <2> SUFFICES ASSUME NEW e \in snapshots PROVE MayState(e)'
    BY <1>1 DEF MayState
  <2> QED
    BY <1>4 DEF Inv, TypeOK
<1>6. RetainedIsTrue'
  <2>1. CASE retained = None
    BY <1>1, <2>1 DEF RetainedIsTrue
  <2>2. CASE retained # None
    <3>1. retained \in AcceptedEvidence /\ MayState(retained)
      BY <2>2 DEF Inv, TypeOK, RetainedIsTrue
    <3> QED
      BY <1>1, <1>4, <3>1 DEF RetainedIsTrue, MayState
  <2> QED
    BY <2>1, <2>2
<1>7. NothingErased'
  BY <1>1 DEF Inv, NothingErased
<1> QED
  BY <1>1, <1>2, <1>3, <1>5, <1>6, <1>7 DEF Inv

\* Truthful statements never contradict one another.
LEMMA TrueAnswersMerge ==
    ASSUME Inv, NEW e \in snapshots
    PROVE  Mergeable(retained, e) \/ (IsNotSubmitted(retained) /\ ~Identified(e))
<1> USE EvidenceAssumption
<1>1. CASE retained = None
  BY <1>1 DEF Mergeable
<1>2. CASE retained # None
  <2>1. /\ retained \in Evidence /\ e \in Evidence /\ e # None
        /\ MayState(retained) /\ MayState(e) /\ execution \in Execution
    BY <1>2 DEF Inv, TypeOK, RetainedIsTrue, AcceptedEvidence
  <2> QED
    BY <1>2, <2>1
       DEF Inv, MayState, Mergeable, IsNotSubmitted, Identified, Accepted,
           Committed, SameReceipt, Execution
<1> QED
  BY <1>1, <1>2

\* The adapter's step: the merge of two true statements is true, and it keeps
\* what each of them established.
LEMMA SaveStep ==
    ASSUME Inv, NEW next \in AcceptedEvidence, Save(next)
    PROVE  Inv'
<1> USE EvidenceAssumption
<1> DEFINE e == Merge(retained, next)
<1>1. /\ next \in snapshots /\ next \in Evidence /\ next # None
      /\ MayState(next) /\ Mergeable(retained, next)
      /\ retained' = e
      /\ delivered' = delivered \cup {next}
      /\ UNCHANGED <<execution, snapshots>>
  BY DEF Save, Inv, TypeOK, AcceptedEvidence
<1>2. e \in AcceptedEvidence /\ e # None
  BY <1>1, MergeIsValid DEF Inv, TypeOK, AcceptedEvidence
<1>3. TypeOK'
  BY <1>1, <1>2 DEF Inv, TypeOK
<1>4. (\A s \in snapshots : MayState(s))'
  BY <1>1 DEF Inv, MayState
<1>5. CASE retained = None
  <2>1. e = next /\ delivered' = {next}
    BY <1>1, <1>5 DEF Merge, Inv
  <2>2. RetainedIsTrue'
    BY <1>1, <2>1 DEF RetainedIsTrue, MayState
  <2>3. NothingErased'
    BY <1>1, <2>1 DEF NothingErased, SameReceipt
  <2> QED
    BY <1>1, <1>2, <1>3, <1>4, <2>2, <2>3 DEF Inv
<1>6. CASE retained # None
  <2>1. /\ retained \in AcceptedEvidence /\ retained \in Evidence
        /\ MayState(retained) /\ NothingErased
    BY <1>6 DEF Inv, TypeOK, RetainedIsTrue, AcceptedEvidence
  <2>2. /\ IsNotSubmitted(e) <=> IsNotSubmitted(retained) \/ IsNotSubmitted(next)
        /\ Identified(e) <=> Identified(retained) \/ Identified(next)
        /\ Identified(retained) => e.transactionHash = retained.transactionHash
        /\ Identified(next) => e.transactionHash = next.transactionHash
        /\ Accepted(e) <=> Accepted(retained) \/ Accepted(next)
        /\ Committed(e) <=> Committed(retained) \/ Committed(next)
        /\ Committed(retained) => SameReceipt(retained, e)
        /\ Committed(next) => SameReceipt(next, e)
    BY <1>1, <2>1, MergeFields
  <2>3. MayState(e)
    BY <1>1, <2>1, <2>2 DEF MayState, SameReceipt, Committed
  <2>4. RetainedIsTrue'
    BY <1>1, <2>3 DEF RetainedIsTrue, MayState
  <2>5. \A s \in delivered : Committed(s) => SameReceipt(s, e)
    BY <1>6, <2>1, <2>2 DEF NothingErased, SameReceipt, Committed
  <2>6. NothingErased'
    <3>1. Identified(e) <=> \E s \in delivered' : Identified(s)
      BY <1>1, <1>6, <2>1, <2>2 DEF NothingErased
    <3>2. Accepted(e) <=> \E s \in delivered' : Accepted(s)
      BY <1>1, <1>6, <2>1, <2>2 DEF NothingErased
    <3>3. \A s \in delivered' : Committed(s) => SameReceipt(s, e)
      BY <1>1, <2>2, <2>5
    <3>4. Committed(e) => \E s \in delivered' : Committed(s)
      BY <1>1, <1>6, <2>1, <2>2 DEF NothingErased
    <3>5. IsNotSubmitted(e) <=> \E s \in delivered' : IsNotSubmitted(s)
      BY <1>1, <1>6, <2>1, <2>2 DEF NothingErased
    <3> QED
      BY <1>1, <3>1, <3>2, <3>3, <3>4, <3>5 DEF NothingErased
  <2> QED
    BY <1>1, <1>2, <1>3, <1>4, <2>4, <2>6 DEF Inv
<1> QED
  BY <1>5, <1>6

LEMMA InitInv == Init => Inv
<1> SUFFICES ASSUME Init PROVE Inv
  OBVIOUS
<1> QED
  BY EvidenceAssumption
     DEF Init, Inv, TypeOK, Execution, Stage, RetainedIsTrue, NothingErased

LEMMA NextInv == Inv /\ [Next]_vars => Inv'
<1> SUFFICES ASSUME Inv, [Next]_vars PROVE Inv'
  OBVIOUS
<1>1. CASE FailBeforeBroadcast \/ Broadcast \/ NodeAccepts \/ Commit
  BY <1>1, WalletStep
<1>2. CASE AnswerRead
  BY <1>2 DEF AnswerRead, Inv, TypeOK, MayState, RetainedIsTrue, NothingErased
<1>3. CASE \E next \in AcceptedEvidence : Save(next)
  BY <1>3, SaveStep
<1>4. CASE UNCHANGED vars
  BY <1>4 DEF vars, Inv, TypeOK, MayState, RetainedIsTrue, NothingErased
<1> QED
  BY <1>1, <1>2, <1>3, <1>4 DEF Next

\* Inv holds in every reachable state.
THEOREM Invariance == Spec => []Inv
<1> QED
  BY InitInv, NextInv, PTL DEF Spec

\* The evidence retained is well-formed at every moment.
THEOREM TypeCorrect == Spec => []TypeOK
<1>1. Inv => TypeOK
  BY DEF Inv
<1> QED
  BY <1>1, Invariance, PTL

\* What is retained really happened, whatever the order and the number of the
\* snapshots folded into it.
THEOREM RetainedTruth == Spec => []RetainedIsTrue
<1>1. Inv => RetainedIsTrue
  BY DEF Inv
<1> QED
  BY <1>1, Invariance, PTL

\* No identity, acceptance or receipt that was ever delivered is lost again.
THEOREM NoErasure == Spec => []NothingErased
<1>1. Inv => NothingErased
  BY DEF Inv
<1> QED
  BY <1>1, Invariance, PTL

\* No true answer is ever refused as a contradiction.
THEOREM NoBlocking == Spec => []NeverStuck
<1>1. Inv => NeverStuck
  BY TrueAnswersMerge DEF NeverStuck
<1> QED
  BY <1>1, Invariance, PTL
==============================================================================
