--------------------- MODULE ExternalTransactionRecovery ---------------------
(***************************************************************************)
(* The authenticated execution evidence of src/externalTransactionRecovery *)
(* .ts: which snapshots the adapter accepts (validateExternalTransaction-  *)
(* Recovery) and how an accepted snapshot is folded into the one already   *)
(* retained (mergeExternalTransactionRecovery).                            *)
(*                                                                         *)
(* The fields that bind a snapshot to its request (schema, ids, scope,     *)
(* commitment, method) are compared for equality only; a snapshot that     *)
(* fails them never reaches the operators below.  failureCode is present   *)
(* exactly when status is "not-submitted", so it is not a field here.      *)
(***************************************************************************)

CONSTANTS
    Tx,            \* transaction identities (a canonical, lower case hash each)
    ChainVersion,  \* ledger versions at which a transaction can be committed
    None           \* stands for an absent optional field

Evidence ==
    [ status               : {"unknown", "approved", "not-submitted"},
      transactionHash      : Tx \cup {None},
      submissionAcceptance : {"absent", "unknown", "accepted"},
      chainStatus          : {"absent", "unknown", "pending", "confirmed", "aborted"},
      chainVersion         : ChainVersion \cup {None} ]

ASSUME EvidenceAssumption ==
    /\ None \notin Tx
    /\ None \notin ChainVersion
    /\ None \notin Evidence

NotSubmitted ==
    [ status |-> "not-submitted", transactionHash |-> None,
      submissionAcceptance |-> "absent", chainStatus |-> "absent",
      chainVersion |-> None ]

IsNotSubmitted(e) == e # None /\ e.status = "not-submitted"

Identified(e) == e.transactionHash # None

Accepted(e) == e.submissionAcceptance = "accepted"

Committed(e) == e.chainStatus \in {"confirmed", "aborted"}

\* A non-submission carries no execution field at all; any other snapshot
\* states an acceptance exactly when it names a transaction, and a ledger
\* version exactly when it claims a committed receipt.
ValidEvidence(e) ==
    /\ e \in Evidence
    /\ \/ e = NotSubmitted
       \/ /\ e.status # "not-submitted"
          /\ e.status = "approved" => Identified(e) /\ Accepted(e)
          /\ Identified(e) => e.submissionAcceptance # "absent"
          /\ ~Identified(e) => /\ e.submissionAcceptance = "absent"
                               /\ e.chainStatus = "absent"
          /\ Committed(e) => Accepted(e)
          /\ Committed(e) <=> e.chainVersion # None

AcceptedEvidence == {e \in Evidence : ValidEvidence(e)}

------------------------------------------------------------------------------
(* mergeExternalTransactionRecovery.  Mergeable is the negation of its     *)
(* invalid() calls, Merge its returns, in the order of the source.         *)

SameReceipt(p, n) ==
    p.chainStatus = n.chainStatus /\ p.chainVersion = n.chainVersion

\* Mutant: a proof of non-submission is refused once anything was retained.
MergeableOnlyAlike(previous, next) ==
    previous # None =>
      /\ IsNotSubmitted(previous) <=> IsNotSubmitted(next)
      /\ Identified(previous) /\ Identified(next) =>
           /\ previous.transactionHash = next.transactionHash
           /\ Committed(previous) /\ Committed(next) => SameReceipt(previous, next)

Mergeable(previous, next) ==
    previous # None =>
      /\ IsNotSubmitted(previous) => IsNotSubmitted(next)
      /\ IsNotSubmitted(next) /\ ~IsNotSubmitted(previous) =>
           ~Identified(previous) /\ ~Accepted(previous)
      /\ Identified(previous) /\ Identified(next) =>
           /\ previous.transactionHash = next.transactionHash
           /\ Committed(previous) /\ Committed(next) => SameReceipt(previous, next)

\* A read that no longer sees the transaction cannot vouch for "pending".
StalePending(e) ==
    [e EXCEPT !.chainStatus = IF @ = "pending" THEN "unknown" ELSE @]

\* Mutants: a known identity is taken for an acceptance; nothing of the older
\* snapshot is kept.
KeepByIdentity(previous, next) ==
    [next EXCEPT
        !.submissionAcceptance = IF Identified(previous) THEN "accepted" ELSE @,
        !.chainStatus = IF Committed(previous) THEN previous.chainStatus ELSE @,
        !.chainVersion = IF Committed(previous) THEN previous.chainVersion ELSE @]

KeepNothing(previous, next) == next

\* The newer snapshot, with the acceptance and the committed receipt that the
\* older one had already established.
KeepEstablished(previous, next) ==
    [next EXCEPT
        !.submissionAcceptance = IF Accepted(previous) THEN "accepted" ELSE @,
        !.chainStatus = IF Committed(previous) THEN previous.chainStatus ELSE @,
        !.chainVersion = IF Committed(previous) THEN previous.chainVersion ELSE @]

Merge(previous, next) ==
    IF previous = None THEN next
    ELSE IF previous.status = "not-submitted" THEN previous
    ELSE IF next.status = "not-submitted" THEN next
    ELSE IF Identified(previous) /\ ~Identified(next) THEN StalePending(previous)
    ELSE KeepEstablished(previous, next)
==============================================================================
