--------------------------- MODULE RecoveryEvidence ---------------------------
(***************************************************************************)
(* One request's evidence over its lifetime.  A wallet executes the        *)
(* operation and answers reads of it with snapshots; the snapshots reach   *)
(* the adapter late, repeatedly and in any order, because several tabs,    *)
(* sessions and read grants read the same original request.  The adapter   *)
(* folds each accepted snapshot into the one it retains.                   *)
(*                                                                         *)
(* The wallet is not part of this repository: it is modelled by what the   *)
(* validator accepts from it, and marked external.                         *)
(***************************************************************************)
EXTENDS ExternalTransactionRecovery

VARIABLES
    execution,  \* the wallet's own record of the operation
    snapshots,  \* answers the wallet has given, each readable again and again
    delivered,  \* history: the snapshots the adapter has folded in
    retained    \* the adapter's externalTransactionRecovery field

vars == <<execution, snapshots, delivered, retained>>

Stage == {"queued", "failed", "broadcast", "accepted", "confirmed", "aborted"}

Execution == [stage : Stage, tx : Tx \cup {None}, version : ChainVersion \cup {None}]

TypeOK ==
    /\ execution \in Execution
    /\ snapshots \subseteq AcceptedEvidence
    /\ delivered \subseteq snapshots
    /\ retained \in AcceptedEvidence \cup {None}

Init ==
    /\ execution = [stage |-> "queued", tx |-> None, version |-> None]
    /\ snapshots = {}
    /\ delivered = {}
    /\ retained = None

------------------------------------------------------------------------------
(* The wallet (external).                                                  *)

FailBeforeBroadcast ==
    /\ execution.stage = "queued"
    /\ execution' = [execution EXCEPT !.stage = "failed"]
    /\ UNCHANGED <<snapshots, delivered, retained>>

Broadcast ==
    /\ execution.stage = "queued"
    /\ \E tx \in Tx : execution' = [execution EXCEPT !.stage = "broadcast", !.tx = tx]
    /\ UNCHANGED <<snapshots, delivered, retained>>

NodeAccepts ==
    /\ execution.stage = "broadcast"
    /\ execution' = [execution EXCEPT !.stage = "accepted"]
    /\ UNCHANGED <<snapshots, delivered, retained>>

Commit ==
    /\ execution.stage = "accepted"
    /\ \E stage \in {"confirmed", "aborted"}, v \in ChainVersion :
         execution' = [execution EXCEPT !.stage = stage, !.version = v]
    /\ UNCHANGED <<snapshots, delivered, retained>>

\* What an honest wallet may say at this moment.  It may know less than it
\* will later, its node may lag behind or be unreachable, and a read may see
\* no identity at all; it never claims what has not happened.
MayState(e) ==
    /\ IsNotSubmitted(e) => execution.stage = "failed"
    /\ Identified(e) => e.transactionHash = execution.tx
    /\ Accepted(e) => execution.stage \in {"accepted", "confirmed", "aborted"}
    /\ Committed(e) => /\ e.chainStatus = execution.stage
                       /\ e.chainVersion = execution.version

AnswerRead ==
    /\ \E e \in AcceptedEvidence :
         /\ MayState(e)
         /\ snapshots' = snapshots \cup {e}
    /\ UNCHANGED <<execution, delivered, retained>>

------------------------------------------------------------------------------
(* The adapter: saveDurableExternalTransactionRecovery aborts on a          *)
(* contradiction and otherwise stores the merged evidence.                  *)

Save(next) ==
    /\ next \in snapshots
    /\ Mergeable(retained, next)
    /\ retained' = Merge(retained, next)
    /\ delivered' = delivered \cup {next}
    /\ UNCHANGED <<execution, snapshots>>

Next ==
    \/ FailBeforeBroadcast
    \/ Broadcast
    \/ NodeAccepts
    \/ Commit
    \/ AnswerRead
    \/ \E next \in AcceptedEvidence : Save(next)

Spec == Init /\ [][Next]_vars

------------------------------------------------------------------------------
(* Properties                                                              *)

\* What the adapter retains is never more than what happened: a named
\* transaction is the one broadcast, an acceptance or a receipt is the real
\* one, and "not-submitted" is retained only for an operation that was never
\* broadcast - even though snapshots are merged field by field.
RetainedIsTrue == retained # None => MayState(retained)

\* The retained evidence does not depend on the order in which snapshots
\* arrive: it names a transaction, an acceptance, a receipt exactly when some
\* delivered snapshot did (mergeExternalTransactionRecovery: "Older snapshots
\* cannot erase a known identity, acceptance or committed receipt").
NothingErased ==
    retained # None =>
      /\ Identified(retained) <=> \E e \in delivered : Identified(e)
      /\ Accepted(retained)   <=> \E e \in delivered : Accepted(e)
      /\ \A e \in delivered : Committed(e) => SameReceipt(e, retained)
      /\ Committed(retained)  =>  \E e \in delivered : Committed(e)
      /\ IsNotSubmitted(retained) <=> \E e \in delivered : IsNotSubmitted(e)

\* Every snapshot an honest wallet has given can be folded in at any time,
\* with one exception: once non-submission is retained, an older "unknown" is
\* refused.  So no reordering of true answers ever blocks recovery.
NeverStuck ==
    \A e \in snapshots :
        Mergeable(retained, e) \/ (IsNotSubmitted(retained) /\ ~Identified(e))
==============================================================================
